---- MODULE Spec2Model ----
(***************************************************************************)
(* A model of the crawler engine of the Europass harvesting pipeline.      *)
(*                                                                         *)
(*   Spec       the bulk fetcher (src/00save2.js): runPool workers, one    *)
(*              per country, paginating every (country, level) scope,      *)
(*              the shared checkpoint file behind metaWriteLock, the       *)
(*              NDJSON output files.  SpecFiltered and SpecResume run it   *)
(*              for one country, with process kills and restarts.          *)
(*   SpecRetry  the retry executors (fetchWithRetry of src/00save2.js and  *)
(*              src/02fetchCountries.js, fetchPageWithRetry of the level   *)
(*              fetcher) on one request.                                   *)
(*   SpecRate   the token bucket (rateLimit and its refill timer) shared   *)
(*              by several workers, against a discrete clock.              *)
(***************************************************************************)
EXTENDS Integers, Sequences, FiniteSets, TLC

\* ------------------------------------------------------------------------
\* Program constants of src/00save2.js.  PAGE_SIZE, MAX_PAGES_PER_LEVEL and
\* CONCURRENCY are scaled down (10, 10000 and 10 in the source), and so are
\* the country and level lists (43 countries and 8 levels in the source);
\* MAX_RETRIES and MAX_RPS have their source values, and so have the
\* constants of the other two fetchers.
\* ------------------------------------------------------------------------
PAGE_SIZE == 2
MAX_PAGES_PER_LEVEL == 3
CONCURRENCY == 2
MAX_RETRIES == 3
MAX_RPS == 3
\* src/02fetchCountries.js
DETAIL_MAX_RETRIES == 3
DETAIL_MAX_RPS == 20
\* The level fetcher (src/unnamed/part_000)
LEVEL_MAX_RETRIES == 6
INITIAL_BACKOFF_MS == 800

country_code == {"ALA", "ALB", "AUT"}
eqfLevel == {1}

\* ------------------------------------------------------------------------
\* Bounds of the model.
\* ------------------------------------------------------------------------
\* The remote source lists at most MaxItems records for a scope.
MaxItems == 3
\* The process is killed (and restarted) at most MaxKills times.
MaxKills == 2
\* The clock of the token bucket counts UnitsPerSecond units per second.
UnitsPerSecond == 2

VARIABLES
  \* ---- bulk fetcher: what survives a kill ----
  source,         \* the records the remote lists for a scope, in order (ids)
  diskMeta,       \* content of europass_meta.json, by scope
  files,          \* content of each scope's NDJSON file: a sequence of ids
  kills,          \* how often the process has been killed so far
  countries,      \* the countries of the run: country_code or a subset
  \* ---- bulk fetcher: the process ----
  mainPc,         \* position of main()
  meta,           \* the checkpoint document each worker (0: main) holds
  queue,          \* runPool's queue of countries
  country,        \* the country a worker is processing
  level,          \* the level a worker is processing
  from,           \* fetchAllFor's local offset
  seen,           \* fetchAllFor's local set of written ids
  body,           \* the body of the response fetchAllFor last received
  newItems,       \* the deduplicated page fetchAllFor is about to append
  pc,             \* position of each worker
  cont,           \* where a worker continues once its saveMeta has resolved
  metaWriteLock   \* the chain of pending checkpoint writes, oldest first

bulkVars == <<source, diskMeta, files, kills, countries, mainPc, meta, queue,
              country, level, from, seen, body, newItems, pc, cont,
              metaWriteLock>>

VARIABLES
  \* ---- one retry executor on one request ----
  executor,       \* whose: "bulk", "detail" or "level"
  attempt,        \* the executor's attempt counter
  rpc,            \* position of the executor
  responses,      \* the status of every response so far (0: no response)
  sleeps,         \* the backoff delays slept so far, in ms
  \* ---- the token bucket ----
  tokens,         \* the permits left until the next refill
  clock,          \* time since the last refill, in units
  sent,           \* requests sent, by age in units, for the last second
  lpc,            \* position of each caller of rateLimit
  passed          \* the callers rateLimit let through since the last refill

VARIABLES
  \* ---- the level fetcher (fetch_levels.js), on one level ----
  ndjson,         \* content of level{n}.ndjson: a sequence of uris
  indexFile,      \* content of level{n}.index.json: a set of uris
  progressFile,   \* content of level{n}.progress.json, when it exists
  finalJson,      \* the metadata of level{n}.json, when it exists
  lvFrom,         \* processLevel's from
  uriSet,         \* processLevel's uriSet
  totalSaved,     \* processLevel's totalSaved
  courses,        \* data.courses of the page just fetched
  lastPage,       \* paginationInfos of that page says it is the last one
  lvPc            \* position of processLevel

levelVars == <<ndjson, indexFile, progressFile, finalJson, lvFrom, uriSet,
               totalSaved, courses, lastPage, lvPc>>

VARIABLES
  \* ---- the checkpoint writes of the bulk fetcher, step by step ----
  chain           \* the saveMeta calls so far, in call order

saveVars == <<chain>>

VARIABLES
  \* ---- the detail fetcher (src/02fetchCountries.js) on one country file,
  \* ---- the deep scraper (src/unnamed/part_004) on one index file ----
  tool,           \* which of the two runs: "detail" or "deep"
  uris,           \* the input list: one id per line or entry, 0 for none
  outFiles,       \* the ids that have an output file
  lineNo,         \* the lines read (meta.lastLine), the entries taken
  active,         \* the detail fetcher's counter of submitted tasks
  executing,      \* the deep scraper's set of promises not yet settled
  raced,          \* the promises Promise.race was called with
  task,           \* what became of the task of each line or entry
  cmeta,          \* the counters of the detail fetcher's country meta
  dpc             \* position of processCountryFile, of asyncPool's loop

VARIABLES
  \* ---- the detail fetcher's country meta file and its saves ----
  diskCm,         \* content of meta/<COUNTRY>_meta.json
  dirty,          \* processCountryFile's dirty flag
  cmSaves,        \* the saveCountryMeta calls that are not over yet
  lastLogged      \* lastLoggedSuccess and lastLoggedFail

cmVars == <<diskCm, dirty, cmSaves, lastLogged>>

poolVars == <<tool, uris, outFiles, lineNo, active, executing, raced, task,
              cmeta, dpc, cmVars>>

VARIABLES
  \* ---- the process ----
  timers,         \* the setInterval timers that are active
  metaRef         \* whose document main's variable meta refers to

procVars == <<timers, metaRef>>

VARIABLES
  \* ---- the AI cleaning stage (src/400AIClean.js) on one CSV file ----
  rows,           \* the row indexes of the input file
  tempCsv,        \* the rows of .<file>.processing.csv, in order
  checkpoint,     \* checkpoint.json
  processedSet,   \* processFileWithConcurrency's processedSet
  completed,      \* its counter completed
  running,        \* ConcurrencyPool.running
  aiTask,         \* what became of the pool task of each row
  outCsv,         \* the rows of the file that has replaced the input
  aiPc            \* position of the cleaning program

aiVars == <<rows, tempCsv, checkpoint, processedSet, completed, running,
            aiTask, outCsv, aiPc>>

VARIABLES
  \* ---- the Semaphore of src/303polished_learningOpportunities.js ----
  current,        \* Semaphore.current
  waiters,        \* Semaphore.waiters: the tasks whose resolve is queued
  semPc           \* position of each task

semVars == <<current, waiters, semPc>>

laterVars == <<aiVars, semVars>>

moreVars == <<poolVars, procVars, laterVars>>

retryVars == <<executor, attempt, rpc, responses, sleeps>>

rateVars == <<clock, sent, lpc, passed>>

\* What the detail fetcher and the deep scraper leave alone, the process
\* variables apart.
notPool == <<bulkVars, retryVars, tokens, rateVars, levelVars, saveVars,
            laterVars>>

\* What the bulk fetcher's specifications leave alone.
restVars == <<retryVars, tokens, rateVars, levelVars, saveVars, poolVars,
             laterVars>>

netVars == <<restVars, procVars>>

vars == <<bulkVars, restVars, procVars>>

\* ------------------------------------------------------------------------
\* Helpers
\* ------------------------------------------------------------------------
Min(a, b) == IF a < b THEN a ELSE b

Range(s) == {s[i] : i \in 1..Len(s)}

NoDuplicates(s) == \A i, j \in 1..Len(s) : s[i] = s[j] => i = j

\* The workers runPool starts; 0 stands for main() itself.
Workers == 1..CONCURRENCY
Procs == 0..CONCURRENCY

Scopes == country_code \X eqfLevel

NoCountry == "-"

\* The remote lists a scope's records in order; cursor drift shows as a
\* record that is listed again right after itself.
RECURSIVE DriftLists(_)
DriftLists(n) ==
  IF n = 0 THEN {<<>>}
  ELSE LET shorter == DriftLists(n - 1)
           longest == {s \in shorter : Len(s) = n - 1}
           next(s) == IF n = 1 THEN {1} ELSE {s[n - 1], s[n - 1] + 1}
       IN shorter \cup UNION {{Append(s, k) : k \in next(s)} : s \in longest}

SourceLists == DriftLists(MaxItems)

\* The page the search API returns for offset f with size PAGE_SIZE.
PageAt(src, f) == SubSeq(src, f + 1, Min(f + PAGE_SIZE, Len(src)))

\* getMeta's fresh entry (lastUpdated and the constant file path left out).
NewEntry ==
  [from |-> 0, completed |-> FALSE, totalPages |-> 0, totalItems |-> 0]

\* getMeta(meta, country, level): a missing entry reads as a fresh one, so
\* a document is held as a total function on the scopes.
getMeta(m, c, l) == m[<<c, l>>]

\* A slip in markUpdated: the page's item count lands in the offset.
markUpdatedOffsetFromCount(entry, f, pageItems) ==
  [entry EXCEPT !.from = pageItems,
                !.totalPages = @ + 1,
                !.totalItems = @ + pageItems]

markUpdated(entry, f, pageItems) ==
  [entry EXCEPT !.from = f,
                !.totalPages = @ + 1,
                !.totalItems = @ + pageItems]

\* A slip in markComplete: the flag is not set.
markCompleteNoFlag(entry) == entry

markComplete(entry) == [entry EXCEPT !.completed = TRUE]

\* inferFromFromFile: the file's line count rounded down to a page boundary
\* (0 when the file cannot be read).
inferFromFromFile(file) == (Len(file) \div PAGE_SIZE) * PAGE_SIZE

\* A slip in the filter: every item of the page is kept.
DedupNone(items, seenIds) == items

\* The filter of fetchAllFor: the items of a page whose id is not in
\* seenIds and not earlier in the page, in page order.
RECURSIVE Dedup(_, _)
Dedup(items, seenIds) ==
  IF items = <<>> THEN <<>>
  ELSE IF Head(items) \in seenIds
       THEN Dedup(Tail(items), seenIds)
       ELSE <<Head(items)>> \o Dedup(Tail(items), seenIds \cup {Head(items)})

\* ------------------------------------------------------------------------
\* Bulk fetcher (src/00save2.js)
\* ------------------------------------------------------------------------
ScopeOf(w) == <<country[w], level[w]>>

entryOf(w) == getMeta(meta[w], country[w], level[w])

\* The process is not running: before the first start and after a kill.
Down == mainPc = "down"

Idle == [w \in Workers |-> "off"]

\* No file of the level fetcher exists.
NoFile == [exists |-> FALSE, lastFrom |-> 0, totalSaved |-> 0]

\* The level fetcher's output directory is empty and nothing is in memory.
LevelEmpty ==
  /\ ndjson = <<>>
  /\ indexFile = {}
  /\ progressFile = NoFile
  /\ finalJson = NoFile
  /\ lvFrom = 0
  /\ uriSet = {}
  /\ totalSaved = 0
  /\ courses = <<>>
  /\ lastPage = FALSE

\* The level fetcher is not part of the run.
LevelOff == LevelEmpty /\ lvPc = "off"

\* checkpoint.json does not exist.
NoCheckpoint == [exists |-> FALSE, status |-> "none", processedRows |-> {}]

\* The AI cleaning stage is not part of the run.
AiOff ==
  /\ rows = {}
  /\ tempCsv = <<>>
  /\ checkpoint = NoCheckpoint
  /\ processedSet = {}
  /\ completed = 0
  /\ running = 0
  /\ aiTask = <<>>
  /\ outCsv = <<>>
  /\ aiPc = "off"

\* No Semaphore is part of the run.
SemOff ==
  /\ current = 0
  /\ waiters = <<>>
  /\ semPc = <<>>

\* Neither the detail fetcher nor the deep scraper is running.
PoolIdle ==
  /\ tool = "off"
  /\ uris = <<>>
  /\ outFiles = {}
  /\ lineNo = 0
  /\ active = 0
  /\ executing = {}
  /\ raced = {}
  /\ task = <<>>
  /\ cmeta = [attempted |-> 0, succeeded |-> 0, failed |-> 0,
              skippedExisting |-> 0]
  /\ dpc = "off"
  /\ diskCm = [lastLine |-> 0, attempted |-> 0, succeeded |-> 0,
               failed |-> 0, skippedExisting |-> 0]
  /\ dirty = FALSE
  /\ cmSaves = {}
  /\ lastLogged = [s |-> 0, f |-> 0]

\* None of the smaller tools is part of the run.
PoolOff ==
  /\ AiOff
  /\ SemOff
  /\ PoolIdle

\* Nothing of the network layer is running.
NetOff ==
  /\ executor = "bulk"
  /\ attempt = 0
  /\ rpc = "off"
  /\ responses = <<>>
  /\ sleeps = <<>>
  /\ tokens = MAX_RPS
  /\ clock = 0
  /\ sent = [a \in 0..(UnitsPerSecond - 1) |-> 0]
  /\ lpc = [c \in Workers |-> "off"]
  /\ passed = 0

\* The bulk fetcher before its first start, in an empty directory.
BulkOff ==
  /\ diskMeta = [s \in Scopes |-> NewEntry]
  /\ files = [s \in Scopes |-> <<>>]
  /\ kills = 0
  /\ mainPc = "down"
  /\ meta = [p \in Procs |-> [s \in Scopes |-> NewEntry]]
  /\ queue = <<>>
  /\ country = [w \in Workers |-> NoCountry]
  /\ level = [w \in Workers |-> 0]
  /\ from = [w \in Workers |-> 0]
  /\ seen = [w \in Workers |-> {}]
  /\ body = [w \in Workers |-> "none"]
  /\ newItems = [w \in Workers |-> <<>>]
  /\ pc = Idle
  /\ cont = [w \in Workers |-> "off"]
  /\ metaWriteLock = <<>>
  /\ chain = <<>>
  /\ timers = {}
  /\ metaRef = 0

InitBulk ==
  /\ source \in SourceLists
  /\ BulkOff
  /\ NetOff
  /\ LevelOff
  /\ PoolOff

\* A run over every country of country_code.
Init == InitBulk /\ countries = country_code

\* A run with COUNTRY set to one country.
InitFiltered == InitBulk /\ \E c \in country_code : countries = {c}

\* saveMeta(meta) called by p: the write joins the chain and the caller
\* awaits it.
saveMeta(p) == Append(metaWriteLock, p)

\* A fixed order of the countries, as the array literal gives one.
RECURSIVE SeqOf(_)
SeqOf(S) ==
  IF S = {} THEN <<>>
  ELSE LET c == CHOOSE x \in S : TRUE
       IN <<c>> \o SeqOf(S \ {c})

\* node 00save2.js: main() loads the checkpoint, scaffolds an entry for
\* every scope and saves.
MainStart ==
  /\ mainPc = "down"
  /\ mainPc' = "scaffold"
  /\ meta' = [meta EXCEPT ![0] = diskMeta]
  /\ metaWriteLock' = saveMeta(0)
  /\ UNCHANGED <<source, diskMeta, files, kills, countries, queue, country,
                 level, from, seen, newItems, pc, cont, body>>
  /\ timers' = {"refill", "heartbeat"}
  /\ metaRef' = 0
  /\ UNCHANGED restVars

\* runPool: the queue is filled and the workers are started one after the
\* other; each runs up to its first await, so worker i shifts the i-th
\* country off the queue, and a worker that finds the queue empty is done.
RunPool ==
  /\ mainPc = "runPool"
  /\ mainPc' = "awaitPool"
  /\ LET all == SeqOf(countries)
         n == Min(CONCURRENCY, Len(all))
     IN /\ queue' = SubSeq(all, n + 1, Len(all))
        /\ country' = [w \in Workers |-> IF w <= n THEN all[w] ELSE NoCountry]
        /\ pc' = [w \in Workers |-> IF w <= n THEN "loadMeta" ELSE "finished"]
  /\ UNCHANGED <<source, diskMeta, files, kills, countries, meta, level,
                 from, seen, newItems, cont, metaWriteLock, body>>
  /\ UNCHANGED netVars

\* A slip in runPool: queue[0] in place of queue.shift().
TakeCountryNoShift(w) ==
  /\ pc[w] = "take"
  /\ IF queue = <<>>
     THEN /\ pc' = [pc EXCEPT ![w] = "finished"]
          /\ UNCHANGED country
     ELSE /\ country' = [country EXCEPT ![w] = Head(queue)]
          /\ pc' = [pc EXCEPT ![w] = "loadMeta"]
  /\ UNCHANGED <<source, diskMeta, files, kills, countries, mainPc, meta,
                 queue, level, from, seen, newItems, cont, metaWriteLock,
                 body>>
  /\ UNCHANGED netVars

\* A runPool worker back from workerFn: while (queue.length) { item =
\* queue.shift(); await workerFn(item); }.
TakeCountry(w) ==
  /\ pc[w] = "take"
  /\ IF queue = <<>>
     THEN /\ pc' = [pc EXCEPT ![w] = "finished"]
          /\ UNCHANGED <<queue, country>>
     ELSE /\ country' = [country EXCEPT ![w] = Head(queue)]
          /\ queue' = Tail(queue)
          /\ pc' = [pc EXCEPT ![w] = "loadMeta"]
  /\ UNCHANGED <<source, diskMeta, files, kills, countries, mainPc, meta,
                 level, from, seen, newItems, cont, metaWriteLock, body>>
  /\ UNCHANGED netVars

\* The worker function of main: meta = await loadMeta(); then
\* processCountry starts with the first level.
LoadMeta(w) ==
  /\ pc[w] = "loadMeta"
  /\ meta' = [meta EXCEPT ![w] = diskMeta]
  /\ level' = [level EXCEPT ![w] = 1]
  /\ pc' = [pc EXCEPT ![w] = "fetchAllFor"]
  /\ UNCHANGED <<source, diskMeta, files, kills, countries, mainPc, queue,
                 country, from, seen, newItems, cont, metaWriteLock, body>>
  /\ metaRef' = w
  /\ UNCHANGED <<restVars, timers>>

\* The offset fetchAllFor resumes at: the entry's, 0 when the file is
\* missing, else the file's page-aligned line count when the two differ.
ResumeFrom(entry, file) ==
  LET f0 == entry.from
      f1 == IF file = <<>> /\ f0 > 0 THEN 0 ELSE f0
  IN IF f1 > 0 /\ inferFromFromFile(file) # f1
     THEN inferFromFromFile(file)
     ELSE f1

\* A slip in fetchAllFor: the completed flag is not looked at.
FetchAllForStartNoSkip(w) ==
  /\ pc[w] = "fetchAllFor"
  /\ LET f == ResumeFrom(entryOf(w), files[ScopeOf(w)])
     IN /\ from' = [from EXCEPT ![w] = f]
        /\ seen' = [seen EXCEPT ![w] = {}]
        /\ IF f # entryOf(w).from
           THEN /\ meta' = [meta EXCEPT ![w][ScopeOf(w)].from = f]
                /\ metaWriteLock' = saveMeta(w)
                /\ pc' = [pc EXCEPT ![w] = "saving"]
                /\ cont' = [cont EXCEPT ![w] = "loop"]
           ELSE /\ pc' = [pc EXCEPT ![w] = "loop"]
                /\ UNCHANGED <<meta, metaWriteLock, cont>>
  /\ UNCHANGED <<source, diskMeta, files, kills, countries, mainPc, queue,
                 country, level, newItems, body>>
  /\ UNCHANGED netVars

\* fetchAllFor up to its loop: a completed scope is skipped; else the
\* resume offset is taken from the entry, reset when the file is missing,
\* aligned with the file, and saved when that changed it; seen is empty.
FetchAllForStart(w) ==
  /\ pc[w] = "fetchAllFor"
  /\ IF entryOf(w).completed
     THEN /\ pc' = [pc EXCEPT ![w] = "nextLevel"]
          /\ UNCHANGED <<from, seen, meta, metaWriteLock, cont>>
     ELSE LET f == ResumeFrom(entryOf(w), files[ScopeOf(w)])
          IN /\ from' = [from EXCEPT ![w] = f]
             /\ seen' = [seen EXCEPT ![w] = {}]
             /\ IF f # entryOf(w).from
                THEN /\ meta' = [meta EXCEPT ![w][ScopeOf(w)].from = f]
                     /\ metaWriteLock' = saveMeta(w)
                     /\ pc' = [pc EXCEPT ![w] = "saving"]
                     /\ cont' = [cont EXCEPT ![w] = "loop"]
                ELSE /\ pc' = [pc EXCEPT ![w] = "loop"]
                     /\ UNCHANGED <<meta, metaWriteLock, cont>>
  /\ UNCHANGED <<source, diskMeta, files, kills, countries, mainPc, queue,
                 country, level, newItems, body>>
  /\ UNCHANGED netVars

\* A slip in the loop: no page ceiling.
LoopTopNoCeiling(w) ==
  /\ pc[w] = "loop"
  /\ pc' = [pc EXCEPT ![w] = "fetch"]
  /\ UNCHANGED <<source, diskMeta, files, kills, countries, mainPc, meta,
                 queue, country, level, from, seen, newItems, cont,
                 metaWriteLock, body>>
  /\ UNCHANGED netVars

\* The head of the loop: the page ceiling, else the request goes out.
LoopTop(w) ==
  /\ pc[w] = "loop"
  /\ IF entryOf(w).totalPages >= MAX_PAGES_PER_LEVEL
     THEN /\ meta' = [meta EXCEPT ![w][ScopeOf(w)] = markComplete(@)]
          /\ metaWriteLock' = saveMeta(w)
          /\ pc' = [pc EXCEPT ![w] = "saving"]
          /\ cont' = [cont EXCEPT ![w] = "nextLevel"]
     ELSE /\ pc' = [pc EXCEPT ![w] = "fetch"]
          /\ UNCHANGED <<meta, metaWriteLock, cont>>
  /\ UNCHANGED <<source, diskMeta, files, kills, countries, mainPc, queue,
                 country, level, from, seen, newItems, body>>
  /\ UNCHANGED netVars

\* fetchWithRetry returned a response (see SpecRetry); its body is JSON
\* text or something else, an HTML error page say.
FetchReturns(w) ==
  /\ pc[w] = "fetch"
  /\ \E b \in {"json", "other"} : body' = [body EXCEPT ![w] = b]
  /\ pc' = [pc EXCEPT ![w] = "text"]
  /\ UNCHANGED <<source, diskMeta, files, kills, countries, mainPc, meta,
                 queue, country, level, from, seen, newItems, cont,
                 metaWriteLock>>
  /\ UNCHANGED netVars

\* fetchWithRetry threw (see SpecRetry): processCountry catches and saves.
FetchThrows(w) ==
  /\ pc[w] = "fetch"
  /\ metaWriteLock' = saveMeta(w)
  /\ pc' = [pc EXCEPT ![w] = "saving"]
  /\ cont' = [cont EXCEPT ![w] = "nextLevel"]
  /\ UNCHANGED <<source, diskMeta, files, kills, countries, mainPc, meta,
                 queue, country, level, from, seen, body, newItems>>
  /\ UNCHANGED netVars

\* A slip in the parse step: a body that is not JSON read as an empty page.
ParsedItemsLenient(b, src, f) ==
  IF b = "json"
  THEN [ok |-> TRUE, items |-> PageAt(src, f)]
  ELSE [ok |-> TRUE, items |-> <<>>]

\* JSON.parse(text) and extractItems: the items of the page; not ok when
\* JSON.parse throws; no items when the JSON has none of the arrays
\* extractItems looks for ("unknown").
ParsedItems(b, src, f) ==
  IF b = "json"
  THEN [ok |-> TRUE, items |-> PageAt(src, f)]
  ELSE IF b = "unknown"
       THEN [ok |-> TRUE, items |-> <<>>]
       ELSE [ok |-> FALSE, items |-> <<>>]

\* The body is read and parsed: a body that is not JSON stops the level,
\* an empty page completes the scope, any other page is deduplicated
\* against seen.
ParseBody(w) ==
  /\ pc[w] = "text"
  /\ LET parsed == ParsedItems(body[w], source, from[w])
         items == parsed.items
     IN IF ~parsed.ok
        THEN /\ pc' = [pc EXCEPT ![w] = "nextLevel"]
             /\ UNCHANGED <<meta, metaWriteLock, cont, seen, newItems>>
        ELSE IF Len(items) = 0
        THEN /\ meta' = [meta EXCEPT ![w][ScopeOf(w)] = markComplete(@)]
             /\ metaWriteLock' = saveMeta(w)
             /\ pc' = [pc EXCEPT ![w] = "saving"]
             /\ cont' = [cont EXCEPT ![w] = "nextLevel"]
             /\ UNCHANGED <<seen, newItems>>
        ELSE /\ newItems' = [newItems EXCEPT ![w] = Dedup(items, seen[w])]
             /\ seen' = [seen EXCEPT ![w] = @ \cup Range(items)]
             /\ pc' = [pc EXCEPT ![w] = "append"]
             /\ UNCHANGED <<meta, metaWriteLock, cont>>
  /\ UNCHANGED <<source, diskMeta, files, kills, countries, mainPc, queue,
                 country, level, from, body>>
  /\ UNCHANGED netVars

\* appendNdjson(entry.file, newItems).
AppendNdjson(w) ==
  /\ pc[w] = "append"
  /\ files' = [files EXCEPT ![ScopeOf(w)] = @ \o newItems[w]]
  /\ pc' = [pc EXCEPT ![w] = "update"]
  /\ UNCHANGED <<source, diskMeta, kills, countries, mainPc, meta, queue,
                 country, level, from, seen, newItems, cont, metaWriteLock,
                 body>>
  /\ UNCHANGED netVars

\* A slip in the loop: saveMeta is called but not awaited.
AdvanceOffsetNoAwait(w) ==
  /\ pc[w] = "update"
  /\ from' = [from EXCEPT ![w] = @ + PAGE_SIZE]
  /\ meta' = [meta EXCEPT ![w][ScopeOf(w)] =
                markUpdated(@, from[w] + PAGE_SIZE, Len(newItems[w]))]
  /\ newItems' = [newItems EXCEPT ![w] = <<>>]
  /\ metaWriteLock' = saveMeta(w)
  /\ pc' = [pc EXCEPT ![w] = "loop"]
  /\ cont' = [cont EXCEPT ![w] = "loop"]
  /\ UNCHANGED <<source, diskMeta, files, kills, countries, mainPc, queue,
                 country, level, seen, body>>
  /\ UNCHANGED netVars

\* from += PAGE_SIZE; markUpdated; saveMeta.
AdvanceOffset(w) ==
  /\ pc[w] = "update"
  /\ from' = [from EXCEPT ![w] = @ + PAGE_SIZE]
  /\ meta' = [meta EXCEPT ![w][ScopeOf(w)] =
                markUpdated(@, from[w] + PAGE_SIZE, Len(newItems[w]))]
  /\ newItems' = [newItems EXCEPT ![w] = <<>>]
  /\ metaWriteLock' = saveMeta(w)
  /\ pc' = [pc EXCEPT ![w] = "saving"]
  /\ cont' = [cont EXCEPT ![w] = "loop"]
  /\ UNCHANGED <<source, diskMeta, files, kills, countries, mainPc, queue,
                 country, level, seen, body>>
  /\ UNCHANGED netVars

\* processCountry's loop over the levels; after the last one the worker
\* is back in runPool's loop.
NextLevel(w) ==
  /\ pc[w] = "nextLevel"
  /\ IF level[w] + 1 \in eqfLevel
     THEN /\ level' = [level EXCEPT ![w] = @ + 1]
          /\ pc' = [pc EXCEPT ![w] = "fetchAllFor"]
     ELSE /\ pc' = [pc EXCEPT ![w] = "take"]
          /\ UNCHANGED level
  /\ UNCHANGED <<source, diskMeta, files, kills, countries, mainPc, meta,
                 queue, country, from, seen, newItems, cont, metaWriteLock,
                 body>>
  /\ UNCHANGED netVars

\* safeWriteMetaFile for the oldest pending write: the document its caller
\* holds replaces the file (temp file, then rename), and the caller's
\* saveMeta resolves.
WriteMeta ==
  /\ metaWriteLock # <<>>
  /\ LET p == Head(metaWriteLock)
     IN /\ diskMeta' = meta[p]
        /\ metaWriteLock' = Tail(metaWriteLock)
        /\ IF p = 0
           THEN /\ mainPc' = "runPool"
                /\ UNCHANGED pc
           ELSE /\ pc' = [pc EXCEPT ![p] = cont[p]]
                /\ UNCHANGED mainPc
  /\ UNCHANGED <<source, files, kills, countries, meta, queue, country,
                 level, from, seen, newItems, cont, body>>
  /\ UNCHANGED netVars

\* await Promise.all(workers) resolves; main prints its summary.
PoolDone ==
  /\ mainPc = "awaitPool"
  /\ \A w \in Workers : pc[w] = "finished"
  /\ mainPc' = "summary"
  /\ UNCHANGED <<source, diskMeta, files, kills, countries, meta, queue,
                 country, level, from, seen, newItems, pc, cont,
                 metaWriteLock, body>>
  /\ UNCHANGED netVars

\* The process is killed: only the files survive.
Kill ==
  /\ ~Down
  /\ kills < MaxKills
  /\ kills' = kills + 1
  /\ mainPc' = "down"
  /\ meta' = [p \in Procs |-> [s \in Scopes |-> NewEntry]]
  /\ queue' = <<>>
  /\ country' = [w \in Workers |-> NoCountry]
  /\ level' = [w \in Workers |-> 0]
  /\ from' = [w \in Workers |-> 0]
  /\ seen' = [w \in Workers |-> {}]
  /\ body' = [w \in Workers |-> "none"]
  /\ newItems' = [w \in Workers |-> <<>>]
  /\ pc' = Idle
  /\ cont' = [w \in Workers |-> "off"]
  /\ metaWriteLock' = <<>>
  /\ UNCHANGED <<source, diskMeta, files, countries>>
  /\ timers' = {}
  /\ metaRef' = 0
  /\ UNCHANGED restVars

\* While the process is down, a scope's output file is removed: the case
\* fetchAllFor's "file missing" branch is written for.
RemoveOutput(s) ==
  /\ Down
  /\ s[1] \in countries
  /\ files[s] # <<>>
  /\ files' = [files EXCEPT ![s] = <<>>]
  /\ UNCHANGED <<source, diskMeta, kills, countries, mainPc, meta, queue,
                 country, level, from, seen, newItems, pc, cont,
                 metaWriteLock, body>>
  /\ UNCHANGED netVars

WorkerStep(w) ==
  \/ TakeCountry(w)
  \/ LoadMeta(w)
  \/ FetchAllForStart(w)
  \/ LoopTop(w)
  \/ FetchReturns(w)
  \/ FetchThrows(w)
  \/ ParseBody(w)
  \/ AppendNdjson(w)
  \/ AdvanceOffset(w)
  \/ NextLevel(w)

\* One run of the process.
Next ==
  \/ MainStart
  \/ RunPool
  \/ \E w \in Workers : WorkerStep(w)
  \/ WriteMeta
  \/ PoolDone

\* One run over every country of country_code, from an empty directory.
Spec == Init /\ [][Next]_vars

\* Runs with COUNTRY set to one country, killed and restarted.
NextFiltered ==
  \/ Next
  \/ Kill

SpecFiltered == InitFiltered /\ [][NextFiltered]_vars

\* The same, with output files that may be removed between two runs.
NextResume ==
  \/ Next
  \/ Kill
  \/ \E s \in Scopes : RemoveOutput(s)

SpecResume == InitFiltered /\ [][NextResume]_vars

\* ------------------------------------------------------------------------
\* The retry executors: fetchWithRetry (src/00save2.js and
\* src/02fetchCountries.js) and fetchPageWithRetry (the level fetcher), on
\* one request
\* ------------------------------------------------------------------------

\* The statuses a response may carry; 0 stands for a request that fetch
\* rejects (timeout, abort, connection reset).
Statuses == {0, 200, 404, 429, 503}

\* res.ok
ResOk(status) == status \in 200..299

\* The test both fetchWithRetry make on a response that is not ok.
RetryableStatus(status) == status >= 500 \/ status = 429

Pow2(n) == 2 ^ n

\* A slip in the backoff: linear instead of exponential growth.
BulkBackoffLinear(n) == 800 * (n + 1)

\* 00save2.js: backoff = delayMs * Math.pow(2, attempt), delayMs = 800.
BulkBackoff(n) == 800 * Pow2(n)

\* 02fetchCountries.js: sleep(400 * Math.pow(2, attempt)).
DetailBackoff(n) == 400 * Pow2(n)

\* The level fetcher, after attempt++: INITIAL_BACKOFF_MS * 2 ** (attempt - 1).
LevelBackoff(n) == INITIAL_BACKOFF_MS * Pow2(n - 1)

\* The retries parameter of fetchWithRetry, at its default.
Retries(e) == IF e = "bulk" THEN MAX_RETRIES ELSE DETAIL_MAX_RETRIES

\* The capacity of the executor's token bucket.
Capacity(e) == IF e = "bulk" THEN MAX_RPS ELSE DETAIL_MAX_RPS

InitRetry ==
  /\ executor \in {"bulk", "detail", "level"}
  /\ attempt = 0
  /\ rpc = IF executor = "level" THEN "request" ELSE "rateLimit"
  /\ responses = <<>>
  /\ sleeps = <<>>
  /\ tokens = IF executor = "level" THEN 0 ELSE Capacity(executor)
  /\ clock = 0
  /\ sent = [a \in 0..(UnitsPerSecond - 1) |-> 0]
  /\ lpc = [c \in Workers |-> "off"]
  /\ passed = 0
  /\ source = <<>>
  /\ countries = {}
  /\ BulkOff
  /\ LevelOff
  /\ PoolOff

\* fetchWithRetry: await rateLimit() takes a token once one is there.
RateLimit ==
  /\ rpc = "rateLimit"
  /\ tokens > 0
  /\ tokens' = tokens - 1
  /\ rpc' = "request"
  /\ UNCHANGED <<executor, attempt, responses, sleeps, rateVars, bulkVars,
                 levelVars, moreVars, saveVars>>

\* The refill timer of the executor's file: setInterval(..., 1000).
Refill ==
  /\ executor # "level"
  /\ tokens' = Min(tokens + Capacity(executor), Capacity(executor))
  /\ UNCHANGED <<retryVars, rateVars, bulkVars, levelVars, moreVars,
                 saveVars>>

\* A slip in the loop bound: the last retry is never made.
FetchWithRetryStepShort(e, n, status) ==
  IF ResOk(status)
  THEN [rpc |-> "returned", sleep |-> <<>>]
  ELSE IF n + 1 < Retries(e)
       THEN [rpc |-> "backoff",
             sleep |-> <<IF e = "bulk" THEN 800 * 2 ^ n ELSE 400 * 2 ^ n>>]
       ELSE [rpc |-> "threw", sleep |-> <<>>]

\* What fetchWithRetry does with the response to an attempt: a response
\* that is ok is returned; any other outcome is thrown inside the try
\* block and caught by the loop's catch, which sleeps and goes on while
\* attempt < retries and rethrows after that.
FetchWithRetryStep(e, n, status) ==
  IF ResOk(status)
  THEN [rpc |-> "returned", sleep |-> <<>>]
  ELSE IF n < Retries(e)
       THEN [rpc |-> "backoff",
             sleep |-> <<IF e = "bulk" THEN BulkBackoff(n)
                                       ELSE DetailBackoff(n)>>]
       ELSE [rpc |-> "threw", sleep |-> <<>>]

\* One attempt of fetchWithRetry and its outcome.
Respond(status) ==
  /\ executor \in {"bulk", "detail"}
  /\ rpc = "request"
  /\ responses' = Append(responses, status)
  /\ LET step == FetchWithRetryStep(executor, attempt, status)
     IN /\ rpc' = step.rpc
        /\ sleeps' = sleeps \o step.sleep
  /\ UNCHANGED <<executor, attempt, tokens, rateVars, bulkVars, levelVars,
                 moreVars, saveVars>>

\* The backoff sleep is over: continue, with attempt++.
Retry ==
  /\ executor \in {"bulk", "detail"}
  /\ rpc = "backoff"
  /\ attempt' = attempt + 1
  /\ rpc' = "rateLimit"
  /\ UNCHANGED <<executor, responses, sleeps, tokens, rateVars, bulkVars,
                 levelVars, moreVars, saveVars>>

\* One attempt of fetchPageWithRetry: status 200 is returned; anything
\* else, a rejected request included, counts an attempt and sleeps.
LevelRespond(status) ==
  /\ executor = "level"
  /\ rpc = "request"
  /\ responses' = Append(responses, status)
  /\ IF status = 200
     THEN /\ rpc' = "returned"
          /\ UNCHANGED <<attempt, sleeps>>
     ELSE /\ attempt' = attempt + 1
          /\ sleeps' = Append(sleeps, LevelBackoff(attempt + 1))
          /\ rpc' = "backoff"
  /\ UNCHANGED <<executor, tokens, rateVars, bulkVars, levelVars, moreVars,
                 saveVars>>

\* After the sleep: while (attempt < MAX_RETRIES), else { ok: false }.
LevelRetry ==
  /\ executor = "level"
  /\ rpc = "backoff"
  /\ rpc' = IF attempt < LEVEL_MAX_RETRIES THEN "request" ELSE "failed"
  /\ UNCHANGED <<executor, attempt, responses, sleeps, tokens, rateVars,
                 bulkVars, levelVars, moreVars, saveVars>>

NextRetry ==
  \/ RateLimit
  \/ Refill
  \/ \E status \in Statuses : Respond(status)
  \/ Retry
  \/ \E status \in Statuses : LevelRespond(status)
  \/ LevelRetry

SpecRetry == InitRetry /\ [][NextRetry]_vars

\* ------------------------------------------------------------------------
\* The token bucket of src/00save2.js, shared by the workers, on a clock of
\* UnitsPerSecond units per second.  (src/02fetchCountries.js has the same
\* bucket with 20 tokens, and no jitter before the request.)
\* ------------------------------------------------------------------------
Ages == 0..(UnitsPerSecond - 1)

\* The requests sent during the last UnitsPerSecond units: any two of them
\* are less than a second apart.
RECURSIVE SentFrom(_, _)
SentFrom(cnt, a) ==
  IF a >= UnitsPerSecond THEN 0 ELSE cnt[a] + SentFrom(cnt, a + 1)

SentInWindow == SentFrom(sent, 0)

InitRate ==
  /\ executor = "bulk"
  /\ attempt = 0
  /\ rpc = "off"
  /\ responses = <<>>
  /\ sleeps = <<>>
  /\ tokens = MAX_RPS
  /\ clock = 0
  /\ sent = [a \in Ages |-> 0]
  /\ lpc = [c \in Workers |-> "idle"]
  /\ passed = 0
  /\ source = <<>>
  /\ countries = {}
  /\ BulkOff
  /\ LevelOff
  /\ PoolOff

\* A slip in the timer's callback: the bucket is not capped.
RefillTokensUncapped(t) == t + MAX_RPS

\* The timer's callback: tokens = Math.min(tokens + MAX_RPS, MAX_RPS).
RefillTokens(t) == Min(t + MAX_RPS, MAX_RPS)

\* One unit of time passes.  Every UnitsPerSecond units the refill timer
\* fires.  The jitter before a request is shorter than a unit: a request
\* that was already delayed across one unit is sent before the next.
Tick ==
  /\ \A c \in Workers : lpc[c] # "late"
  /\ clock' = (clock + 1) % UnitsPerSecond
  /\ tokens' = IF clock' = 0 THEN RefillTokens(tokens) ELSE tokens
  /\ sent' = [a \in Ages |-> IF a = 0 THEN 0 ELSE sent[a - 1]]
  /\ lpc' = [c \in Workers |-> IF lpc[c] = "jitter" THEN "late" ELSE lpc[c]]
  /\ passed' = IF clock' = 0 THEN 0 ELSE passed
  /\ UNCHANGED <<retryVars, bulkVars, levelVars, moreVars, saveVars>>

\* rateLimit(): while (tokens <= 0) await sleep(50); tokens--.
Acquire(c) ==
  /\ lpc[c] = "idle"
  /\ tokens > 0
  /\ tokens' = tokens - 1
  /\ lpc' = [lpc EXCEPT ![c] = "jitter"]
  /\ passed' = passed + 1
  /\ UNCHANGED <<clock, sent, retryVars, bulkVars, levelVars, moreVars,
                 saveVars>>

\* After the jitter sleep the request goes out; when its response is in,
\* the worker is free to call fetchWithRetry again.
Send(c) ==
  /\ lpc[c] \in {"jitter", "late"}
  /\ sent' = [sent EXCEPT ![0] = @ + 1]
  /\ lpc' = [lpc EXCEPT ![c] = "idle"]
  /\ UNCHANGED <<clock, tokens, passed, retryVars, bulkVars, levelVars,
                 moreVars, saveVars>>

NextRate ==
  \/ Tick
  \/ \E c \in Workers : Acquire(c)
  \/ \E c \in Workers : Send(c)

SpecRate == InitRate /\ [][NextRate]_vars

\* ------------------------------------------------------------------------
\* Claims about the bulk fetcher
\* ------------------------------------------------------------------------

\* The ids an uninterrupted, error-free run of fetchAllFor writes for a
\* scope, started at offset f with `pages` pages counted so far.
RECURSIVE RunIds(_, _, _)
RunIds(src, f, pages) ==
  IF pages >= MAX_PAGES_PER_LEVEL \/ PageAt(src, f) = <<>>
  THEN {}
  ELSE Range(PageAt(src, f)) \cup RunIds(src, f + PAGE_SIZE, pages + 1)

\* C1: no output file ever holds two records with the same identifier,
\* whatever the kills and restarts and however the source's pages overlap.
C1_NoDuplicateRecords == \A s \in Scopes : NoDuplicates(files[s])

\* C2: once a scope is recorded as completed, after any kills and restarts,
\* the identifiers in its output file are those an uninterrupted run writes.
C2_ResumeIdempotent ==
  \A s \in Scopes :
    diskMeta[s].completed => Range(files[s]) = RunIds(source, 0, 0)

\* C3 as claimed: the offset stored in the checkpoint file never decreases
\* from one save to the next, startup resets and realignments included.
C3_OffsetNeverDecreases ==
  [][\A s \in Scopes : diskMeta'[s].from >= diskMeta[s].from]_vars

\* C3 as amended: while a worker is in the pagination loop of a scope (past
\* fetchAllFor's startup), the offset of the scope's entry in the document
\* it saves never decreases.
C3_OffsetMonotoneInLoop ==
  [][\A w \in Workers :
       (/\ pc[w] \in {"loop", "fetch", "append", "update", "saving"}
        /\ country'[w] = country[w] /\ level'[w] = level[w])
       => entryOf(w)'.from >= entryOf(w).from]_vars

\* C3 witness: a page save has advanced a resumed scope's saved offset.
C3_Witness ==
  \E w \in Workers :
    /\ kills > 0
    /\ pc[w] = "loop"
    /\ entryOf(w).totalPages > 0
    /\ diskMeta[ScopeOf(w)].from = from[w]
    /\ from[w] >= 2 * PAGE_SIZE


\* The entries of w's country in the checkpoint file are the ones w holds.
Persisted(w) ==
  \A l \in eqfLevel :
    diskMeta[<<country[w], l>>] = getMeta(meta[w], country[w], l)

\* C4: whenever a worker has no save of its own pending, the checkpoint
\* file holds, for the scopes of the worker's country, the entries that
\* worker last saved: no other worker's save has put older ones back.
C4_NoLostUpdate ==
  \A w \in Workers :
    (country[w] # NoCountry /\ pc[w] \notin {"loadMeta", "saving"})
      => Persisted(w)

\* C5: a scope's completed flag, in each document in memory and in the
\* checkpoint file, never goes back from true to false during a run.
C5_CompletedNeverReverts ==
  [][\A s \in Scopes :
       /\ diskMeta[s].completed => diskMeta'[s].completed
       /\ \A p \in Procs : meta[p][s].completed => meta'[p][s].completed]_vars

\* C10: a worker that reads a body that is not JSON leaves fetchAllFor at
\* once: no request is sent again, nothing is saved or written, and the
\* scope's entry keeps its offset and stays not completed.
C10_NonJsonStopsScope ==
  [][\A w \in Workers :
       (pc[w] = "text" /\ body[w] = "other" /\ pc'[w] # "text")
       => /\ pc'[w] = "nextLevel"
          /\ entryOf(w)' = entryOf(w)
          /\ ~entryOf(w)'.completed
          /\ from'[w] = from[w]
          /\ metaWriteLock' = metaWriteLock
          /\ diskMeta' = diskMeta
          /\ files' = files]_vars

\* C10 witness: a scope stopped by a body that is not JSON, past its first
\* page, with the offset it had before the request.
C10_Witness ==
  \E w \in Workers :
    /\ pc[w] = "nextLevel"
    /\ body[w] = "other"
    /\ from[w] > 0
    /\ entryOf(w).from = from[w]
    /\ ~entryOf(w).completed


\* ------------------------------------------------------------------------
\* Claims about the rate limiter and the retry executors
\* ------------------------------------------------------------------------

\* C6: the requests sent within any one second never number more than
\* MAX_RPS.
C6_RateBound == SentInWindow <= MAX_RPS

\* The attempts that did not get an ok response.
FailedAttempts(log) == {i \in 1..Len(log) : ~ResOk(log[i])}

\* Every failure so far was retryable: 5xx, 429, or no response at all.
OnlyRetryableFailures(log) ==
  \A i \in FailedAttempts(log) : RetryableStatus(log[i]) \/ log[i] = 0

InitialBackoff(e) == IF e = "detail" THEN 400 ELSE 800

\* C8: the delay slept after the N-th consecutive failure, before the N-th
\* retry, is initialBackoff * 2^(N-1), and no retry goes out unslept.
C8_BackoffDoubles ==
  /\ \A n \in 1..Len(sleeps) :
       sleeps[n] = InitialBackoff(executor) * 2 ^ (n - 1)
  /\ Len(responses) <= Len(sleeps) + 1
  /\ rpc \in {"backoff", "rateLimit", "request"}
       => Len(sleeps) = Cardinality(FailedAttempts(responses))

\* C8 witness: three failures in a row, slept 800, 1600 and 3200 ms, and
\* the third retry succeeded.
C8_Witness ==
  /\ executor = "bulk"
  /\ rpc = "returned"
  /\ Len(sleeps) = MAX_RETRIES
  /\ sleeps[MAX_RETRIES] = 3200

\* C9: in the bulk fetcher, a 4xx response other than 429 ends the request
\* at once: it is the last attempt, failure is reported, and no backoff is
\* slept after it.
C9_ClientErrorIsFatal ==
  executor = "bulk" =>
    \A i \in 1..Len(responses) :
      (responses[i] \in 400..499 /\ responses[i] # 429)
        => /\ i = Len(responses)
           /\ rpc = "threw"
           /\ Len(sleeps) = i - 1

\* C11: fetchWithRetry never throws to its caller: when it is over, it has
\* returned a result.
C11_NeverThrows == executor \in {"bulk", "detail"} => rpc # "threw"

\* ------------------------------------------------------------------------
\* The level fetcher (fetch_levels.js, src/unnamed/part_000), on one level
\* ------------------------------------------------------------------------

\* The page size of the level fetcher, scaled down (150 in the source).
SIZE == 2

Max(a, b) == IF a > b THEN a ELSE b

\* data.courses of the page the search API returns for offset f.
LevelPageAt(src, f) == SubSeq(src, f + 1, Min(f + SIZE, Len(src)))

\* processLevel: from = prog.lastFrom + SIZE when there is a progress file.
LevelResumeFrom(prog) == IF prog.exists THEN prog.lastFrom + SIZE ELSE 0

\* saveProgress(level, { lastFrom, totalSaved }).
saveProgress(f, saved) ==
  [exists |-> TRUE, lastFrom |-> f, totalSaved |-> saved]

\* A run of the level fetcher from an empty output directory.
InitLevel ==
  /\ source \in SourceLists
  /\ countries = {}
  /\ BulkOff
  /\ NetOff
  /\ LevelEmpty
  /\ PoolOff
  /\ lvPc = "down"

\* processLevel up to its loop: loadIndex, loadProgress, the resume offset.
LevelStart ==
  /\ lvPc = "down"
  /\ uriSet' = indexFile
  /\ lvFrom' = LevelResumeFrom(progressFile)
  /\ totalSaved' = IF progressFile.exists THEN progressFile.totalSaved
                                          ELSE Cardinality(indexFile)
  /\ lvPc' = "request"
  /\ UNCHANGED <<ndjson, indexFile, progressFile, finalJson, courses,
                 lastPage>>
  /\ UNCHANGED <<bulkVars, retryVars, tokens, rateVars, saveVars, moreVars>>

\* fetchPageWithRetry gave up (see SpecRetry): progress and index are
\* saved and the level is left.
LevelFetchFails ==
  /\ lvPc = "request"
  /\ progressFile' = saveProgress(Max(0, lvFrom - SIZE), totalSaved)
  /\ indexFile' = uriSet
  /\ lvPc' = "done"
  /\ UNCHANGED <<ndjson, finalJson, lvFrom, uriSet, totalSaved, courses,
                 lastPage>>
  /\ UNCHANGED <<bulkVars, retryVars, tokens, rateVars, saveVars, moreVars>>

\* fetchPageWithRetry returned a response.  Its data has a courses array
\* or not; last is what its paginationInfos says of currentPageNumber >=
\* totalPageCount (FALSE also when there is no paginationInfos), and the
\* server may say it on any page.
LevelFetchReturns ==
  /\ lvPc = "request"
  /\ LET page == LevelPageAt(source, lvFrom)
     IN \E shape \in {"courses", "other"} :
        \E last \in BOOLEAN :
          /\ lastPage' = last
          /\ IF shape = "other"
             THEN /\ progressFile' = saveProgress(lvFrom, totalSaved)
                  /\ indexFile' = uriSet
                  /\ lvPc' = "done"
                  /\ UNCHANGED courses
             ELSE IF page = <<>>
             THEN /\ lvPc' = "finalizeEmpty"
                  /\ UNCHANGED <<progressFile, indexFile, courses>>
             ELSE /\ courses' = page
                  /\ lvPc' = "append"
                  /\ UNCHANGED <<progressFile, indexFile>>
  /\ UNCHANGED <<ndjson, finalJson, lvFrom, uriSet, totalSaved>>
  /\ UNCHANGED <<bulkVars, retryVars, tokens, rateVars, saveVars, moreVars>>

\* appendUniqueCoursesToNdjson, awaited; totalSaved += appended.
LevelAppend ==
  /\ lvPc = "append"
  /\ LET fresh == Dedup(courses, uriSet)
     IN /\ ndjson' = ndjson \o fresh
        /\ totalSaved' = totalSaved + Len(fresh)
  /\ uriSet' = uriSet \cup Range(courses)
  /\ lvPc' = "save"
  /\ UNCHANGED <<indexFile, progressFile, finalJson, lvFrom, courses,
                 lastPage>>
  /\ UNCHANGED <<bulkVars, retryVars, tokens, rateVars, saveVars, moreVars>>

\* saveIndex; saveProgress(level, { lastFrom: from, totalSaved }).
LevelSave ==
  /\ lvPc = "save"
  /\ indexFile' = uriSet
  /\ progressFile' = saveProgress(lvFrom, totalSaved)
  /\ lvPc' = "regenerate"
  /\ UNCHANGED <<ndjson, finalJson, lvFrom, uriSet, totalSaved, courses,
                 lastPage>>
  /\ UNCHANGED <<bulkVars, retryVars, tokens, rateVars, saveVars, moreVars>>

\* A slip in processLevel: paginationInfos is not looked at.
LevelRegenerateNoPagination ==
  /\ lvPc = "regenerate"
  /\ finalJson' = saveProgress(lvFrom, Len(ndjson))
  /\ lvFrom' = lvFrom + SIZE
  /\ lvPc' = "request"
  /\ UNCHANGED <<ndjson, indexFile, progressFile, uriSet, totalSaved,
                 courses, lastPage>>
  /\ UNCHANGED <<bulkVars, retryVars, tokens, rateVars, saveVars, moreVars>>

\* regenerateFinalJson(level, from), awaited; then the level is finalized
\* when paginationInfos said so, else from += SIZE.
LevelRegenerate ==
  /\ lvPc = "regenerate"
  /\ finalJson' = saveProgress(lvFrom, Len(ndjson))
  /\ IF lastPage
     THEN /\ lvPc' = "finalizeLast"
          /\ UNCHANGED lvFrom
     ELSE /\ lvFrom' = lvFrom + SIZE
          /\ lvPc' = "request"
  /\ UNCHANGED <<ndjson, indexFile, progressFile, uriSet, totalSaved,
                 courses, lastPage>>
  /\ UNCHANGED <<bulkVars, retryVars, tokens, rateVars, saveVars, moreVars>>

\* Finalizing: regenerateFinalJson, saveProgress, saveIndex with lastFrom
\* the offset of the last page that had courses.
LevelFinalize ==
  /\ lvPc \in {"finalizeEmpty", "finalizeLast"}
  /\ LET lastFrom == IF lvPc = "finalizeLast" THEN lvFrom
                                              ELSE Max(0, lvFrom - SIZE)
     IN /\ finalJson' = saveProgress(lastFrom, Len(ndjson))
        /\ progressFile' = saveProgress(lastFrom, totalSaved)
  /\ indexFile' = uriSet
  /\ lvPc' = "done"
  /\ UNCHANGED <<ndjson, lvFrom, uriSet, totalSaved, courses, lastPage>>
  /\ UNCHANGED <<bulkVars, retryVars, tokens, rateVars, saveVars, moreVars>>

LevelNext ==
  \/ LevelStart
  \/ LevelFetchFails
  \/ LevelFetchReturns
  \/ LevelAppend
  \/ LevelSave
  \/ LevelRegenerate
  \/ LevelFinalize

\* The two paginating fetchers, each on a run of its own from an empty
\* directory: the bulk fetcher over every country, the level fetcher on a
\* level.
InitPages == Init \/ InitLevel

NextPages ==
  \/ lvPc = "off" /\ Next
  \/ LevelNext

SpecPages == InitPages /\ [][NextPages]_vars

\* ------------------------------------------------------------------------
\* Claims about pagination
\* ------------------------------------------------------------------------

\* The ids of the records the source lists before offset f.
IdsBefore(src, f) == Range(SubSeq(src, 1, Min(f, Len(src))))

\* C12: while a request for a page is out, every earlier page of the scope
\* has been deduplicated and appended and its checkpoint save is over, in
\* the bulk fetcher and in the level fetcher; and no two workers have a
\* request out for the same scope.
C12_PagesInSequence ==
  /\ \A w \in Workers :
       pc[w] \in {"fetch", "text"} =>
         /\ \A i \in 1..Len(metaWriteLock) : metaWriteLock[i] # w
         /\ newItems[w] = <<>>
         /\ entryOf(w).from = from[w]
         /\ Range(files[ScopeOf(w)]) = IdsBefore(source, from[w])
         /\ \A v \in Workers \ {w} :
              pc[v] \in {"fetch", "text"} => ScopeOf(v) # ScopeOf(w)
  /\ lvPc = "request" =>
       /\ Range(ndjson) = IdsBefore(source, lvFrom)
       /\ indexFile = uriSet
       /\ lvFrom > 0 => /\ progressFile = saveProgress(lvFrom - SIZE, totalSaved)
                        /\ finalJson = saveProgress(lvFrom - SIZE, Len(ndjson))

\* C12 witness: two workers each have the request for a later page of
\* their scope out, the earlier page being in the file and saved.
C12_Witness ==
  /\ \A w \in Workers : pc[w] = "fetch" /\ from[w] = PAGE_SIZE
  /\ \A w \in Workers : Len(files[ScopeOf(w)]) = PAGE_SIZE

\* ------------------------------------------------------------------------
\* The checkpoint writes of the bulk fetcher (saveMeta, safeWriteMetaFile
\* of src/00save2.js), step by step
\* ------------------------------------------------------------------------

\* At most MaxSaves calls of saveMeta are followed.
MaxSaves == 3

\* for (let attempt = 0; attempt < 5; attempt++)
RENAME_ATTEMPTS == 5

\* What fs.rename may answer; "none" is success.
RenameErrors == {"none", "EPERM", "ENOENT", "EIO"}

InitSave ==
  /\ source = <<>>
  /\ countries = country_code
  /\ BulkOff
  /\ NetOff
  /\ LevelOff
  /\ PoolOff

\* A slip in saveMeta: the write is started without waiting for the chain.
ThenReadyUnchained(ch, i) == ch[i].st = "queued"

\* metaWriteLock.then(...): the callback of the i-th call runs once the
\* promise it was chained to, that of the call before, is settled.
ThenReady(ch, i) == IF i = 1 THEN TRUE ELSE ch[i - 1].st = "settled"

\* A slip in the rename loop: one attempt too many.
RenameStepOneMore(err, n) ==
  IF err = "none"
  THEN [st |-> "settled", ok |-> TRUE, tmp |-> "none"]
  ELSE IF err \in {"EPERM", "ENOENT"} /\ n + 1 < RENAME_ATTEMPTS + 1
       THEN [st |-> "renaming", ok |-> FALSE, tmp |-> "whole"]
       ELSE [st |-> "settled", ok |-> FALSE, tmp |-> "none"]

\* One pass of the rename loop of safeWriteMetaFile, n renames having
\* failed before: success returns; EPERM and ENOENT sleep and go on while
\* attempts are left; after the last attempt, and on any other error, the
\* temp file is unlinked (and that error is thrown, to saveMeta's catch).
RenameStep(err, n) ==
  IF err = "none"
  THEN [st |-> "settled", ok |-> TRUE, tmp |-> "none"]
  ELSE IF err \in {"EPERM", "ENOENT"} /\ n + 1 < RENAME_ATTEMPTS
       THEN [st |-> "renaming", ok |-> FALSE, tmp |-> "whole"]
       ELSE [st |-> "settled", ok |-> FALSE, tmp |-> "none"]

\* The scope a caller is working on: main on none, worker p on the first
\* level of the p-th country.
WorkingOn(p) == IF p = 0 THEN {} ELSE {<<SeqOf(country_code)[p], 1>>}

\* A caller that is not awaiting a save of its own calls saveMeta(meta): a
\* worker after recording a page of its scope in its document, main with its
\* document as it is.  The write is chained.
SaveMetaCall(p) ==
  /\ Len(chain) < MaxSaves
  /\ \A i \in 1..Len(chain) : chain[i].by = p => chain[i].st = "settled"
  /\ meta' = [meta EXCEPT ![p] =
                [s \in Scopes |->
                   IF s \in WorkingOn(p)
                   THEN markUpdated(@[s], @[s].from + PAGE_SIZE, PAGE_SIZE)
                   ELSE @[s]]]
  /\ chain' = Append(chain, [by |-> p, st |-> "queued", renames |-> 0,
                             tmp |-> "none", ok |-> FALSE,
                             doc |-> meta'[p]])
  /\ UNCHANGED <<source, diskMeta, files, kills, countries, mainPc, queue,
                 country, level, from, seen, body, newItems, pc, cont,
                 metaWriteLock>>
  /\ UNCHANGED <<retryVars, tokens, rateVars, levelVars, moreVars>>

\* safeWriteMetaFile begins: fs.writeFile(tmpFile, JSON.stringify(meta)).
StartWrite(i) ==
  /\ i \in 1..Len(chain)
  /\ chain[i].st = "queued"
  /\ ThenReady(chain, i)
  /\ chain' = [chain EXCEPT ![i].st = "writing", ![i].tmp = "partial",
                            ![i].doc = meta[chain[i].by]]
  /\ UNCHANGED <<bulkVars, retryVars, tokens, rateVars, levelVars,
                 moreVars>>

\* A slip in saveMeta: no catch on safeWriteMetaFile(meta), so its error
\* rejects the promise metaWriteLock is set to.
SettledAsUncaught(threw) == IF threw THEN "rejected" ELSE "settled"

\* safeWriteMetaFile(meta).catch(err => console.error(...)): whether
\* safeWriteMetaFile threw or not, the promise of the then callback, which
\* metaWriteLock is set to and saveMeta returns, is fulfilled.
SettledAs(threw) == "settled"

\* fs.writeFile is over: the temp file is whole, or the write failed and
\* the error goes to saveMeta's catch.
FinishWrite(i, written) ==
  /\ i \in 1..Len(chain)
  /\ chain[i].st = "writing"
  /\ chain' = IF written
              THEN [chain EXCEPT ![i].st = "renaming", ![i].tmp = "whole"]
              ELSE [chain EXCEPT ![i].st = SettledAs(TRUE)]
  /\ UNCHANGED <<bulkVars, retryVars, tokens, rateVars, levelVars,
                 moreVars>>

\* fs.rename(tmpFile, META_PATH) and what the loop does with its answer.
Rename(i, err) ==
  /\ i \in 1..Len(chain)
  /\ chain[i].st = "renaming"
  /\ LET step == RenameStep(err, chain[i].renames)
         threw == step.st = "settled" /\ err \notin {"none", "EPERM", "ENOENT"}
     IN /\ chain' = [chain EXCEPT ![i].st = IF step.st = "settled"
                                            THEN SettledAs(threw)
                                            ELSE step.st,
                                  ![i].ok = step.ok,
                                  ![i].tmp = step.tmp,
                                  ![i].renames = @ + 1]
        /\ diskMeta' = IF step.ok THEN chain[i].doc ELSE diskMeta
  /\ UNCHANGED <<source, files, kills, countries, mainPc, meta, queue,
                 country, level, from, seen, body, newItems, pc, cont,
                 metaWriteLock>>
  /\ UNCHANGED <<retryVars, tokens, rateVars, levelVars, moreVars>>

NextSave ==
  \/ \E p \in Procs : SaveMetaCall(p)
  \/ \E i \in 1..MaxSaves : StartWrite(i)
  \/ \E i \in 1..MaxSaves, written \in BOOLEAN : FinishWrite(i, written)
  \/ \E i \in 1..MaxSaves, err \in RenameErrors : Rename(i, err)

SpecSave == InitSave /\ [][NextSave]_vars

\* ------------------------------------------------------------------------
\* Claims about the checkpoint writes
\* ------------------------------------------------------------------------

\* C13: the checkpoint file is only ever replaced by the rename of a whole
\* temp file; no write makes more than 5 renames; and a write that ends
\* without a successful rename leaves the file as it was.
C13_AtomicReplace ==
  /\ [](\A i \in 1..Len(chain) : chain[i].renames <= 5)
  /\ [][/\ diskMeta' # diskMeta =>
             \E i \in 1..Len(chain) :
               /\ chain[i].st = "renaming" /\ chain[i].tmp = "whole"
               /\ chain'[i].ok
               /\ diskMeta' = chain[i].doc
        /\ \A i \in 1..Len(chain) :
             (chain[i].st # "settled" /\ chain'[i].st = "settled"
              /\ ~chain'[i].ok) => diskMeta' = diskMeta]_vars

\* C13 witness: a write gave up after 5 failed renames, and the file still
\* holds what an earlier write had put there.
C13_Witness ==
  \E i, j \in 1..Len(chain) :
    /\ i < j
    /\ chain[i].ok /\ diskMeta = chain[i].doc
    /\ chain[j].st = "settled" /\ ~chain[j].ok /\ chain[j].renames = 5
    /\ chain[j].doc # diskMeta

\* C14: at most one safeWriteMetaFile is in progress at any time, and the
\* writes run in the order of the saveMeta calls: a write has not begun
\* before every earlier one is over.
C14_WritesSerialized ==
  /\ Cardinality({i \in 1..Len(chain) :
                    chain[i].st \in {"writing", "renaming"}}) <= 1
  /\ \A i, j \in 1..Len(chain) :
       (i < j /\ chain[j].st # "queued") => chain[i].st = "settled"

\* C14 witness: three callers have called saveMeta; the first write is
\* over, the second is in progress and the third waits.
C14_Witness ==
  /\ Len(chain) = 3
  /\ Cardinality({chain[i].by : i \in 1..3}) = 3
  /\ chain[1].st = "settled"
  /\ chain[2].st = "renaming" /\ chain[2].renames = 2
  /\ chain[3].st = "queued"

\* ------------------------------------------------------------------------
\* Claims about the scopes of the bulk fetcher
\* ------------------------------------------------------------------------

\* C15: fetchAllFor called for a scope whose entry is completed returns at
\* once: the worker goes on to the next level without a request, and the
\* entry, the checkpoint file, the pending saves and the output files are
\* as before.
C15_CompletedIsSkipped ==
  [][\A w \in Workers :
       (/\ pc[w] = "fetchAllFor" /\ entryOf(w).completed
        /\ pc'[w] # pc[w] /\ mainPc' # "down")
       => /\ pc'[w] = "nextLevel"
          /\ meta'[w] = meta[w]
          /\ diskMeta' = diskMeta
          /\ metaWriteLock' = metaWriteLock
          /\ files' = files]_vars

\* C15 witness: after a restart, a worker has passed a scope that the
\* checkpoint file had as completed, without having received a response.
C15_Witness ==
  \E w \in Workers :
    /\ kills > 0
    /\ pc[w] = "nextLevel"
    /\ entryOf(w).completed
    /\ diskMeta[ScopeOf(w)].completed
    /\ files[ScopeOf(w)] # <<>>
    /\ body[w] = "none"

\* The offset after the pages that hold n records.
OffsetAfter(n) == ((n + PAGE_SIZE - 1) \div PAGE_SIZE) * PAGE_SIZE

\* C16: an empty page marks the scope completed and queues the save, after
\* which the worker leaves the scope; and in a run that was never killed, a
\* scope completed below the page ceiling has counted every record of the
\* source once and stands at the offset after the last page that had
\* records (pages of PAGE_SIZE, then a shorter one, then none).
C16_EmptyPageCompletes ==
  /\ [][\A w \in Workers :
          (/\ pc[w] = "text" /\ body[w] = "json"
           /\ PageAt(source, from[w]) = <<>>
           /\ pc'[w] # pc[w] /\ mainPc' # "down")
          => /\ entryOf(w)'.completed
             /\ metaWriteLock' = Append(metaWriteLock, w)
             /\ pc'[w] = "saving" /\ cont'[w] = "nextLevel"
             /\ entryOf(w)'.from = from[w]
             /\ files' = files]_vars
  /\ [](\A s \in Scopes :
          (/\ kills = 0 /\ diskMeta[s].completed
           /\ diskMeta[s].totalPages < MAX_PAGES_PER_LEVEL)
          => /\ diskMeta[s].totalItems = Cardinality(Range(source))
             /\ diskMeta[s].from = OffsetAfter(Len(source))
             /\ Range(files[s]) = Range(source)
             /\ \A w \in Workers :
                  ScopeOf(w) = s =>
                    pc[w] \notin {"loop", "fetch", "text", "append",
                                  "update", "saving"})

\* C16 witness: pages of 2, 1 and 0 records at page size 2: the scope ends
\* with 3 items, completed, at offset 4.
C16_Witness ==
  /\ kills = 0
  /\ source = <<1, 2, 3>>
  /\ \E s \in Scopes :
       /\ diskMeta[s] = [from |-> 2 * PAGE_SIZE, completed |-> TRUE,
                         totalPages |-> 2, totalItems |-> 3]
       /\ files[s] = <<1, 2, 3>>

\* The process is killed between two pages: every worker that is in a
\* scope has its last page in the output file and in the checkpoint file,
\* and has written nothing of the next page.
KillAfterSave ==
  /\ mainPc = "awaitPool"
  /\ metaWriteLock = <<>>
  /\ \A w \in Workers : pc[w] \in {"loop", "fetch", "text", "finished"}
  /\ \E w \in Workers : pc[w] # "finished"
  /\ Kill

NextCleanKill ==
  \/ Next
  \/ KillAfterSave

\* Runs with COUNTRY set to one country, killed only between two pages.
SpecCleanKill == InitFiltered /\ [][NextCleanKill]_vars

\* C17: restarted after a kill between two pages, fetchAllFor resumes a
\* scope at the offset the checkpoint file holds for it, and a scope that
\* gets completed has counted, and written, each record of the source once.
C17_ResumesAtSavedOffset ==
  /\ [][\A w \in Workers :
          (/\ kills > 0 /\ pc[w] = "fetchAllFor" /\ ~entryOf(w).completed
           /\ pc'[w] # pc[w] /\ mainPc' # "down")
          => from'[w] = diskMeta[ScopeOf(w)].from]_vars
  /\ [](\A s \in Scopes :
          diskMeta[s].completed =>
            /\ diskMeta[s].totalItems = Cardinality(Range(source))
            /\ Len(files[s]) = Cardinality(Range(source)))

\* C18: when the request of a scope fails for good, the scope's entry gets
\* the pause and its error recorded and the checkpoint is saved; the worker
\* goes on with its next level, and no other worker is touched.
C18_FailurePausesScope ==
  [][\A w \in Workers :
       (pc[w] = "fetch" /\ pc'[w] = "saving")
       => /\ entryOf(w)' # entryOf(w)
          /\ metaWriteLock' = Append(metaWriteLock, w)
          /\ cont'[w] = "nextLevel"
          /\ \A v \in Workers \ {w} :
               pc'[v] = pc[v] /\ meta'[v] = meta[v]]_vars

\* The records of the page at offset f that no earlier page has listed.
NetNew(page, src, f) == Cardinality(Range(page) \ IdsBefore(src, f))

\* C19: in a run of the bulk fetcher or of the level fetcher, a record
\* that two pages list is written once, and the count a page adds to the
\* checkpoint (totalItems, totalSaved) is the number of its records that
\* no earlier page had, not the size of the page.
C19_DedupAcrossPages ==
  /\ [](/\ \A s \in Scopes : NoDuplicates(files[s])
        /\ NoDuplicates(ndjson))
  /\ [][/\ \A w \in Workers :
             (pc[w] = "update" /\ pc'[w] = "saving")
             => entryOf(w)'.totalItems =
                  entryOf(w).totalItems
                  + NetNew(PageAt(source, from[w]), source, from[w])
        /\ (lvPc = "append" /\ lvPc' = "save")
             => totalSaved' =
                  totalSaved
                  + NetNew(LevelPageAt(source, lvFrom), source, lvFrom)]_vars

\* C19 witness: record 2 is on the first page and on the second; the file
\* has it once, and the second page has added nothing to the count.
C19_Witness ==
  /\ source = <<1, 2, 2>>
  /\ \E w \in Workers :
       /\ pc[w] = "loop"
       /\ files[ScopeOf(w)] = <<1, 2>>
       /\ entryOf(w).totalPages = 2
       /\ entryOf(w).totalItems = 2
       /\ diskMeta[ScopeOf(w)].totalItems = 2

\* ------------------------------------------------------------------------
\* The bulk fetcher against a source that lists more pages than the page
\* ceiling allows
\* ------------------------------------------------------------------------

\* A source with one page more than MAX_PAGES_PER_LEVEL, every page full.
LongSource == [i \in 1..(PAGE_SIZE * (MAX_PAGES_PER_LEVEL + 1)) |-> i]

InitCeiling ==
  /\ source = LongSource
  /\ BulkOff
  /\ NetOff
  /\ LevelOff
  /\ PoolOff
  /\ \E c \in country_code : countries = {c}

\* Every continuation that is ready is run by the event loop, and every
\* request is answered or aborted by its timeout.
FairRun ==
  /\ \A w \in Workers : WF_vars(WorkerStep(w))
  /\ WF_vars(WriteMeta)
  /\ WF_vars(MainStart \/ RunPool \/ PoolDone)

\* Runs with COUNTRY set to one country, killed and restarted, against the
\* long source.
SpecCeiling == InitCeiling /\ [][NextFiltered]_vars /\ FairRun

\* The positions of a worker inside the pagination loop of fetchAllFor.
InLoop(w) == pc[w] \in {"loop", "fetch", "text", "append", "update"}
             \/ (pc[w] = "saving" /\ cont[w] = "loop")

\* C20: totalPages of a scope never exceeds MAX_PAGES_PER_LEVEL; a worker
\* that finds the counter at the ceiling marks the scope completed, saves
\* and leaves it without a request; and a worker in the pagination loop
\* always leaves it, even when the source never runs out of pages.
C20_PageCeiling ==
  /\ [](/\ \A s \in Scopes :
             /\ diskMeta[s].totalPages <= MAX_PAGES_PER_LEVEL
             /\ \A p \in Procs : meta[p][s].totalPages <= MAX_PAGES_PER_LEVEL
        /\ \A w \in Workers :
             pc[w] \in {"fetch", "text", "append", "update"}
             => entryOf(w).totalPages < MAX_PAGES_PER_LEVEL)
  /\ [][\A w \in Workers :
          (/\ pc[w] = "loop" /\ pc'[w] # pc[w] /\ mainPc' # "down"
           /\ entryOf(w).totalPages >= MAX_PAGES_PER_LEVEL)
          => /\ entryOf(w)'.completed
             /\ metaWriteLock' = Append(metaWriteLock, w)
             /\ pc'[w] = "saving" /\ cont'[w] = "nextLevel"]_vars
  /\ \A w \in Workers : InLoop(w) ~> ~InLoop(w)

\* C20 witness: the scope was completed at the ceiling, with records of the
\* source still unfetched.
C20_Witness ==
  \E w \in Workers :
    /\ pc[w] = "nextLevel"
    /\ entryOf(w).totalPages = MAX_PAGES_PER_LEVEL
    /\ entryOf(w).completed
    /\ diskMeta[ScopeOf(w)] = entryOf(w)
    /\ Len(files[ScopeOf(w)]) < Len(source)
    /\ body[w] = "json"

\* ------------------------------------------------------------------------
\* Claims about the level fetcher
\* ------------------------------------------------------------------------

\* C21: when the response with a page of courses says currentPageNumber >=
\* totalPageCount, the page is appended and index, progress and final JSON
\* are saved, then the level is finalized at the offset of that page; and
\* after a response that says so no request goes out any more, whether the
\* page was empty or not.
C21_LastPageFinalizes ==
  /\ [](lvPc = "finalizeLast" =>
          /\ lastPage
          /\ Range(courses) \subseteq Range(ndjson)
          /\ indexFile = uriSet
          /\ progressFile = saveProgress(lvFrom, totalSaved)
          /\ finalJson = saveProgress(lvFrom, Len(ndjson)))
  /\ [][(lvPc = "regenerate" /\ lastPage)
          => (lvPc' = "finalizeLast" /\ lvFrom' = lvFrom)]_vars
  /\ [][lvPc = "finalizeLast"
          => /\ lvPc' = "done"
             /\ progressFile' = saveProgress(lvFrom, totalSaved)
             /\ finalJson' = saveProgress(lvFrom, Len(ndjson))
             /\ indexFile' = uriSet]_vars
  /\ [][(lastPage /\ lvPc \notin {"off", "down", "request"})
          => lvPc' # "request"]_vars

\* C21 witness: a level finalized at its first page, which was full and
\* said to be the last, the source having more records.
C21_Witness ==
  /\ lvPc = "done"
  /\ lastPage
  /\ lvFrom = 0
  /\ Len(ndjson) = SIZE
  /\ Len(source) > SIZE
  /\ progressFile = saveProgress(0, SIZE)
  /\ finalJson = saveProgress(0, SIZE)

\* ------------------------------------------------------------------------
\* Claims about the pool of country workers
\* ------------------------------------------------------------------------

\* Worker w is inside workerFn, processing country[w].
Busy(w) == pc[w] \notin {"off", "take", "finished"}

MaxUris == 4

\* The concurrency of both programs, scaled down (100 in the source).
DETAIL_CONCURRENCY == 2

\* The ids a line may carry; 0 stands for a line without a usable uri.
UriIds == {1, 2}

RECURSIVE UriLists(_)
UriLists(n) ==
  IF n = 0 THEN {<<>>}
  ELSE LET shorter == UriLists(n - 1)
       IN shorter \cup {Append(s, u) : s \in {t \in shorter : Len(t) = n - 1},
                                       u \in UriIds \cup {0}}

NoTasks == [i \in 1..MaxUris |-> "none"]

\* The meta a fresh loadCountryMeta returns.
NewCm ==
  [lastLine |-> 0, attempted |-> 0, succeeded |-> 0, failed |-> 0,
   skippedExisting |-> 0]

\* One run of one of the two programs over a list, with the output files
\* and the meta file an earlier run has left; the detail fetcher resumes
\* after meta.lastLine.
InitPool ==
  /\ source = <<>>
  /\ countries = {}
  /\ BulkOff
  /\ NetOff
  /\ LevelOff
  /\ AiOff
  /\ SemOff
  /\ tool \in {"detail", "deep"}
  /\ uris \in UriLists(MaxUris)
  /\ outFiles \in SUBSET UriIds
  /\ lineNo = 0
  /\ active = 0
  /\ executing = {}
  /\ raced = {}
  /\ task = NoTasks
  /\ cmeta = [attempted |-> 0, succeeded |-> 0, failed |-> 0,
              skippedExisting |-> 0]
  /\ dpc = "down"
  /\ \E l \in (IF tool = "detail" THEN 0..Len(uris) ELSE {0}) :
       diskCm = [NewCm EXCEPT !.lastLine = l]
  /\ dirty = FALSE
  /\ cmSaves = {}
  /\ lastLogged = [s |-> 0, f |-> 0]

\* The tasks whose request is out.
InFlight == {i \in 1..MaxUris : task[i] = "inflight"}

\* The meta object with lastLine l and the counters c.
CmOf(l, c) ==
  [lastLine |-> l, attempted |-> c.attempted, succeeded |-> c.succeeded,
   failed |-> c.failed, skippedExisting |-> c.skippedExisting]

\* The meta object of processCountryFile as JSON.stringify sees it.
MemCm == CmOf(lineNo, cmeta)

\* saveCountryMeta(metaPath, meta) is called by `by` (for task i): the
\* meta is serialized now, the temp file is written and renamed later.
saveCountryMeta(by, i, snap) ==
  cmSaves \cup {[by |-> by, i |-> i, snap |-> snap]}

\* Math.floor(current / 100) > Math.floor(lastLogged / 100)
MILESTONE == 100

milestoneReached(count, last) ==
  (count \div MILESTONE) > (last \div MILESTONE)

\* The process starts: the detail fetcher sets its refill timer when the
\* file is loaded, loads the country's meta and sets the flush timer in
\* processCountryFile; the deep scraper sets no timer.
PoolStart ==
  /\ dpc = "down"
  /\ timers' = IF tool = "detail" THEN {"refill", "flush"} ELSE {}
  /\ dpc' = IF tool = "detail" THEN "read" ELSE "loop"
  /\ IF tool = "detail"
     THEN /\ lineNo' = diskCm.lastLine
          /\ cmeta' = [attempted |-> diskCm.attempted,
                       succeeded |-> diskCm.succeeded,
                       failed |-> diskCm.failed,
                       skippedExisting |-> diskCm.skippedExisting]
          /\ lastLogged' = [s |-> diskCm.succeeded, f |-> diskCm.failed]
     ELSE UNCHANGED <<lineNo, cmeta, lastLogged>>
  /\ UNCHANGED <<tool, uris, outFiles, active, executing, raced, task,
                 diskCm, dirty, cmSaves>>
  /\ UNCHANGED <<notPool, metaRef>>

\* A slip in the skip: the output file is never found.
HasOutputNever(u, out) == FALSE

\* fs.existsSync(outPath); await fsp.stat(outPath).catch(() => false).
HasOutput(u, out) == u \in out

\* processCountryFile reads the next line: meta.lastLine = lineNo, dirty =
\* true; without uri or id it counts a failure (and saves at a milestone),
\* with an output file it counts a skip, else it goes to drain.
DetailReadLine ==
  /\ tool = "detail" /\ dpc = "read"
  /\ lineNo < Len(uris)
  /\ lineNo' = lineNo + 1
  /\ dirty' = TRUE
  /\ LET u == uris[lineNo + 1]
     IN IF u = 0
        THEN /\ cmeta' = [cmeta EXCEPT !.failed = @ + 1]
             /\ task' = [task EXCEPT ![lineNo + 1] = "failed"]
             /\ IF milestoneReached(cmeta'.failed, lastLogged.f)
                THEN /\ lastLogged' = [lastLogged EXCEPT !.f = cmeta'.failed]
                     /\ cmSaves' = saveCountryMeta("main", 0, CmOf(lineNo + 1, cmeta'))
                     /\ dpc' = "milestone"
                ELSE UNCHANGED <<lastLogged, cmSaves, dpc>>
        ELSE IF HasOutput(u, outFiles)
        THEN /\ cmeta' = [cmeta EXCEPT !.skippedExisting = @ + 1]
             /\ task' = [task EXCEPT ![lineNo + 1] = "skipped"]
             /\ UNCHANGED <<lastLogged, cmSaves, dpc>>
        ELSE /\ dpc' = "drain"
             /\ UNCHANGED <<cmeta, task, lastLogged, cmSaves>>
  /\ UNCHANGED <<tool, uris, outFiles, active, executing, raced, diskCm>>
  /\ UNCHANGED <<notPool, procVars>>

\* A slip in drain: > in place of >=.
DrainOpenOffByOne(a) == ~(a > DETAIL_CONCURRENCY)

\* drain returns: while (active >= CONCURRENCY) await sleep(10) is over.
DrainOpen(a) == ~(a >= DETAIL_CONCURRENCY)

\* await drain(); submit(task): active++, and the task runs up to its
\* request: meta.attempted++, fetchWithRetry(uri).
DetailSubmit ==
  /\ tool = "detail" /\ dpc = "drain"
  /\ DrainOpen(active)
  /\ active' = active + 1
  /\ task' = [task EXCEPT ![lineNo] = "inflight"]
  /\ cmeta' = [cmeta EXCEPT !.attempted = @ + 1]
  /\ dpc' = "read"
  /\ UNCHANGED <<tool, uris, outFiles, lineNo, executing, raced, cmVars>>
  /\ UNCHANGED <<notPool, procVars>>

\* The request of a task is over: fetchWithRetry returned and the file is
\* written, or it threw; the counter is raised; at a milestone the meta is
\* saved and the task goes on when the save is over (see CmSaveDone), else
\* finally: dirty = true, and active--.
DetailTaskEnds(i, ok) ==
  /\ tool = "detail" /\ task[i] = "inflight"
  /\ IF ok
     THEN /\ outFiles' = outFiles \cup {uris[i]}
          /\ cmeta' = [cmeta EXCEPT !.succeeded = @ + 1]
          /\ task' = [task EXCEPT ![i] = "saved"]
     ELSE /\ cmeta' = [cmeta EXCEPT !.failed = @ + 1]
          /\ task' = [task EXCEPT ![i] = "failed"]
          /\ UNCHANGED outFiles
  /\ IF (IF ok THEN milestoneReached(cmeta'.succeeded, lastLogged.s)
               ELSE milestoneReached(cmeta'.failed, lastLogged.f))
     THEN /\ lastLogged' = IF ok
                           THEN [lastLogged EXCEPT !.s = cmeta'.succeeded]
                           ELSE [lastLogged EXCEPT !.f = cmeta'.failed]
          /\ cmSaves' = saveCountryMeta("task", i, CmOf(lineNo, cmeta'))
          /\ UNCHANGED <<active, dirty>>
     ELSE /\ active' = active - 1
          /\ dirty' = TRUE
          /\ UNCHANGED <<lastLogged, cmSaves>>
  /\ UNCHANGED <<tool, uris, lineNo, executing, raced, dpc, diskCm>>
  /\ UNCHANGED <<notPool, procVars>>

\* The last line is read: while (active > 0) await sleep(50).
DetailEof ==
  /\ tool = "detail" /\ dpc = "read"
  /\ lineNo = Len(uris)
  /\ dpc' = "wait"
  /\ UNCHANGED <<tool, uris, outFiles, lineNo, active, executing, raced,
                 task, cmeta, cmVars>>
  /\ UNCHANGED <<notPool, procVars>>

\* No task is left: clearInterval(flushTimer) and the last save is called.
DetailFinish ==
  /\ tool = "detail" /\ dpc = "wait"
  /\ active = 0
  /\ timers' = timers \ {"flush"}
  /\ cmSaves' = saveCountryMeta("final", 0, MemCm)
  /\ dpc' = "finalSave"
  /\ UNCHANGED <<tool, uris, outFiles, lineNo, active, executing, raced,
                 task, cmeta, diskCm, dirty, lastLogged>>
  /\ UNCHANGED <<notPool, metaRef>>

\* fsp.rename(tmp, metaPath): the file is what was serialized.
CmWritten(disk, snap) == snap

\* A saveCountryMeta call is over, whichever: its temp file has replaced
\* the meta file, and its caller goes on.  The flush timer's callback and
\* the reading loop set dirty = false; a task sets dirty = false, then in
\* its finally dirty = true, and active--; after the last save main's
\* loop over the files is over.
CmSaveDone ==
  /\ tool = "detail"
  /\ \E save \in cmSaves :
     /\ diskCm' = CmWritten(diskCm, save.snap)
     /\ cmSaves' = cmSaves \ {save}
     /\ LET by == save.by
        IN /\ dirty' = IF by \in {"timer", "main"} THEN FALSE
                      ELSE IF by = "task" THEN TRUE ELSE dirty
           /\ active' = IF by = "task" THEN active - 1 ELSE active
           /\ dpc' = IF by = "main" THEN "read"
                     ELSE IF by = "final" THEN "mainEnd" ELSE dpc
  /\ UNCHANGED <<tool, uris, outFiles, lineNo, executing, raced, task,
                 cmeta, lastLogged>>
  /\ UNCHANGED <<notPool, procVars>>

\* asyncPool: if (executing.size >= concurrency).
PoolFull(ex) == Cardinality(ex) >= DETAIL_CONCURRENCY

\* asyncPool takes the next entry: the promise of its worker is created
\* and added to executing; with executing full the loop awaits
\* Promise.race(executing), else it goes on at once.
PoolAdd ==
  /\ tool = "deep" /\ dpc = "loop"
  /\ lineNo < Len(uris)
  /\ lineNo' = lineNo + 1
  /\ task' = [task EXCEPT ![lineNo + 1] = "created"]
  /\ executing' = executing \cup {lineNo + 1}
  /\ IF PoolFull(executing')
     THEN /\ dpc' = "race"
          /\ raced' = executing'
     ELSE UNCHANGED <<dpc, raced>>
  /\ UNCHANGED <<tool, uris, outFiles, active, cmeta, cmVars>>
  /\ UNCHANGED <<notPool, procVars>>

\* Promise.race resolves: one of the promises it was given has settled
\* (and has removed itself from executing before).
PoolRaceResolves ==
  /\ tool = "deep" /\ dpc = "race"
  /\ raced \ executing # {}
  /\ dpc' = "loop"
  /\ raced' = {}
  /\ UNCHANGED <<tool, uris, outFiles, lineNo, active, executing, task,
                 cmeta, cmVars>>
  /\ UNCHANGED <<notPool, procVars>>

\* The list is through: return Promise.all(results).
PoolLoopEnds ==
  /\ tool = "deep" /\ dpc = "loop"
  /\ lineNo = Len(uris)
  /\ dpc' = "all"
  /\ UNCHANGED <<tool, uris, outFiles, lineNo, active, executing, raced,
                 task, cmeta, cmVars>>
  /\ UNCHANGED <<notPool, procVars>>

\* A worker starts, once the loop awaits: an entry that is no url, or
\* whose output file exists, is skipped; else its request goes out.
PoolWorkerStarts(i) ==
  /\ tool = "deep" /\ task[i] = "created"
  /\ dpc \in {"race", "all"}
  /\ IF uris[i] = 0 \/ HasOutput(uris[i], outFiles)
     THEN /\ task' = [task EXCEPT ![i] = "skipped"]
          /\ executing' = executing \ {i}
     ELSE /\ task' = [task EXCEPT ![i] = "inflight"]
          /\ UNCHANGED executing
  /\ UNCHANGED <<tool, uris, outFiles, lineNo, active, raced, cmeta, dpc,
                 cmVars>>
  /\ UNCHANGED <<notPool, procVars>>

\* A worker's request is over: the record is written, or an error file
\* is; the promise settles and removes itself from executing.
PoolWorkerEnds(i, ok) ==
  /\ tool = "deep" /\ task[i] = "inflight"
  /\ IF ok
     THEN /\ outFiles' = outFiles \cup {uris[i]}
          /\ task' = [task EXCEPT ![i] = "saved"]
     ELSE /\ task' = [task EXCEPT ![i] = "failed"]
          /\ UNCHANGED outFiles
  /\ executing' = executing \ {i}
  /\ UNCHANGED <<tool, uris, lineNo, active, raced, cmeta, dpc, cmVars>>
  /\ UNCHANGED <<notPool, procVars>>

\* Promise.all(results) resolves and main is over.
PoolAllDone ==
  /\ tool = "deep" /\ dpc = "all"
  /\ \A i \in 1..Len(uris) : task[i] \in {"saved", "failed", "skipped"}
  /\ dpc' = "mainEnd"
  /\ UNCHANGED <<tool, uris, outFiles, lineNo, active, executing, raced,
                 task, cmeta, cmVars>>
  /\ UNCHANGED <<notPool, procVars>>

NextDetail ==
  \/ DetailReadLine
  \/ DetailSubmit
  \/ \E i \in 1..MaxUris, ok \in BOOLEAN : DetailTaskEnds(i, ok)
  \/ DetailEof
  \/ DetailFinish
  \/ CmSaveDone

NextDeep ==
  \/ PoolAdd
  \/ PoolRaceResolves
  \/ PoolLoopEnds
  \/ \E i \in 1..MaxUris : PoolWorkerStarts(i)
  \/ \E i \in 1..MaxUris, ok \in BOOLEAN : PoolWorkerEnds(i, ok)
  \/ PoolAllDone

\* A run in which the flush timer does not fire (one shorter than its
\* period of 3 s).
NextPool ==
  \/ PoolStart
  \/ NextDetail
  \/ NextDeep

SpecPool == InitPool /\ [][NextPool]_vars

\* ------------------------------------------------------------------------
\* Claims about the detail requests
\* ------------------------------------------------------------------------

\* C23: in the detail fetcher and in the deep scraper, never more detail
\* requests are out than the configured concurrency, and neither the
\* counter active nor the set executing gets past it.
C23_InFlightBounded ==
  /\ Cardinality(InFlight) <= DETAIL_CONCURRENCY
  /\ active <= DETAIL_CONCURRENCY
  /\ Cardinality(executing) <= DETAIL_CONCURRENCY
  /\ tool = "detail" => Cardinality(InFlight) = active
  /\ tool = "deep" => InFlight \subseteq executing

\* C23 witness: the concurrency is used up, with a further entry of the
\* list waiting for its turn.
C23_Witness ==
  /\ Cardinality(InFlight) = DETAIL_CONCURRENCY
  /\ dpc \in {"drain", "race"}
  /\ lineNo < Len(uris) \/ dpc = "drain"

\* The step looks for the output file of entry i: the detail fetcher when
\* it reads the line, the deep scraper when the worker starts.
ChecksOutput(i) ==
  \/ tool = "detail" /\ dpc = "read" /\ lineNo' = i /\ lineNo = i - 1
  \/ tool = "deep" /\ task[i] = "created" /\ task'[i] # "created"

\* C24: an entry whose output file exists when it is looked for is
\* skipped: no request goes out for it, no output file changes, no failure
\* is counted (the detail fetcher counts a skip); and a request is out for
\* a uri that has an output file only if another entry of the same uri has
\* written it in this run.
C24_ExistingIsSkipped ==
  /\ [][\A i \in 1..Len(uris) :
          (ChecksOutput(i) /\ uris[i] \in outFiles) =>
            /\ task'[i] = "skipped"
            /\ InFlight' = InFlight
            /\ outFiles' = outFiles
            /\ cmeta'.failed = cmeta.failed
            /\ cmeta'.attempted = cmeta.attempted
            /\ tool = "detail" =>
                 cmeta'.skippedExisting = cmeta.skippedExisting + 1]_vars
  /\ [](\A i \in InFlight :
          uris[i] \in outFiles =>
            \E j \in 1..Len(uris) :
              j # i /\ uris[j] = uris[i] /\ task[j] = "saved")
  /\ [](\A i \in 1..Len(uris) : task[i] = "skipped" =>
          uris[i] = 0 \/ uris[i] \in outFiles)

\* C24 witness: a second run of the detail fetcher over a list of two
\* records, one fetched before: it was skipped, the other one fetched,
\* and no failure counted.
C24_Witness ==
  /\ tool = "detail" /\ dpc = "mainEnd"
  /\ uris = <<1, 2>>
  /\ task[1] = "skipped" /\ task[2] = "saved"
  /\ cmeta = [attempted |-> 1, succeeded |-> 1, failed |-> 0,
              skippedExisting |-> 1]

\* ------------------------------------------------------------------------
\* The bulk fetcher with a shutdown signal (setupGraceful of
\* src/00save2.js)
\* ------------------------------------------------------------------------

\* The entry the handler's saveMeta(metaRefFn()) puts on the chain: it
\* carries r, whose document main's variable meta referred to when the
\* signal came.
SigEntry(r) == CONCURRENCY + 1 + r

SigDoc(e) == e - (CONCURRENCY + 1)

SigEntries == {SigEntry(r) : r \in Procs}

Signalled == \E i \in 1..Len(metaWriteLock) : metaWriteLock[i] \in SigEntries

\* A run over as many countries as there are workers.
InitSignal ==
  /\ InitBulk
  /\ countries \in {C \in SUBSET country_code : Cardinality(C) = CONCURRENCY}

\* SIGINT or SIGTERM, once setupGraceful has installed the handler: the
\* handler calls saveMeta(metaRefFn()) and awaits it, while the workers
\* go on.
Sigint ==
  /\ mainPc \in {"runPool", "awaitPool"}
  /\ ~Signalled
  /\ metaWriteLock' = Append(metaWriteLock, SigEntry(metaRef))
  /\ UNCHANGED <<source, diskMeta, files, kills, countries, mainPc, meta,
                 queue, country, level, from, seen, newItems, pc, cont,
                 body>>
  /\ UNCHANGED netVars

\* The handler's write is done, with the document as it is now, and
\* finally process.exit(0).
SignalSave ==
  /\ metaWriteLock # <<>>
  /\ Head(metaWriteLock) \in SigEntries
  /\ diskMeta' = meta[SigDoc(Head(metaWriteLock))]
  /\ mainPc' = "exited"
  /\ meta' = [p \in Procs |-> [s \in Scopes |-> NewEntry]]
  /\ queue' = <<>>
  /\ country' = [w \in Workers |-> NoCountry]
  /\ level' = [w \in Workers |-> 0]
  /\ from' = [w \in Workers |-> 0]
  /\ seen' = [w \in Workers |-> {}]
  /\ body' = [w \in Workers |-> "none"]
  /\ newItems' = [w \in Workers |-> <<>>]
  /\ pc' = Idle
  /\ cont' = [w \in Workers |-> "off"]
  /\ metaWriteLock' = <<>>
  /\ timers' = {}
  /\ metaRef' = 0
  /\ UNCHANGED <<source, files, kills, countries>>
  /\ UNCHANGED restVars

NextSignal ==
  \/ MainStart
  \/ RunPool
  \/ \E w \in Workers : WorkerStep(w)
  \/ PoolDone
  \/ (metaWriteLock # <<>> /\ Head(metaWriteLock) \in Procs /\ WriteMeta)
  \/ Sigint
  \/ SignalSave

SpecSignal == InitSignal /\ [][NextSignal]_vars

\* C25: the document the handler hands to saveMeta when the signal comes
\* holds, for every worker that is inside a scope at that moment, the entry
\* of that scope as the worker has it in memory; and the process exits
\* only with the handler's write of that document done.
C25_SignalSavesAllScopes ==
  /\ [][(Signalled' /\ ~Signalled) =>
          \A w \in Workers :
            (Busy(w) /\ level[w] \in eqfLevel) =>
              meta[metaRef][ScopeOf(w)] = entryOf(w)]_vars
  /\ [][mainPc' = "exited" =>
          /\ Signalled
          /\ diskMeta' = meta[SigDoc(Head(metaWriteLock))]]_vars

\* ------------------------------------------------------------------------
\* Claims about the start of a scope
\* ------------------------------------------------------------------------

\* C26: when fetchAllFor starts on a scope that is not completed, the
\* offset it resumes at is not beyond the records in the scope's file, and
\* whenever the recorded offset differs from the number of records in the
\* file, the recorded offset 0 included, the offset it resumes at is the
\* one computed from the file.
C26_StartupRealigns ==
  [][\A w \in Workers :
       (pc[w] = "fetchAllFor" /\ pc'[w] # pc[w] /\ mainPc' # "down"
        /\ ~entryOf(w).completed) =>
         LET file == files[ScopeOf(w)]
         IN /\ from'[w] <= Len(file)
            /\ entryOf(w).from # Len(file)
                 => from'[w] = inferFromFromFile(file)]_vars

\* ------------------------------------------------------------------------
\* Claims about a checkpoint store that cannot be written
\* ------------------------------------------------------------------------

\* The writes that are over and have not replaced the checkpoint file.
FailedWrites == {i \in 1..Len(chain) : chain[i].st = "settled" /\ ~chain[i].ok}

\* C27: once checkpoint writes have failed one after the other, none
\* having succeeded, the run is over: no worker records a further page and
\* calls saveMeta again.
C27_UnwritableAborts ==
  [][(/\ Cardinality(FailedWrites) >= 2
      /\ \A i \in 1..Len(chain) : i \in FailedWrites)
     => \A p \in Workers : meta'[p] = meta[p]]_vars

\* ------------------------------------------------------------------------
\* The end of the process: the bulk fetcher and the detail fetcher (and the
\* deep scraper), each on a run of its own to the end of main
\* ------------------------------------------------------------------------

InitExit == InitFiltered \/ InitPool

NextExit ==
  \/ tool = "off" /\ Next
  \/ tool # "off" /\ NextPool

SpecExit == InitExit /\ [][NextExit]_vars

\* main has returned: every scope, every line of the list is processed.
\* Neither main calls process.exit here, so the process ends when nothing
\* is left that keeps the event loop alive.
MainOver == mainPc = "summary" \/ dpc = "mainEnd"

\* C28: when main has returned, no timer is active any more, so the
\* process exits, with code 0.
C28_ExitsWhenDone == MainOver => timers = {}

\* ------------------------------------------------------------------------
\* The level fetcher, killed and started again
\* ------------------------------------------------------------------------

\* The process is killed, or has ended, and only the files are left.
LevelKill ==
  /\ lvPc \notin {"off", "down"}
  /\ kills < MaxKills
  /\ kills' = kills + 1
  /\ lvFrom' = 0
  /\ uriSet' = {}
  /\ totalSaved' = 0
  /\ courses' = <<>>
  /\ lastPage' = FALSE
  /\ lvPc' = "down"
  /\ UNCHANGED <<ndjson, indexFile, progressFile, finalJson>>
  /\ UNCHANGED <<source, diskMeta, files, countries, mainPc, meta, queue,
                 country, level, from, seen, body, newItems, pc, cont,
                 metaWriteLock>>
  /\ UNCHANGED <<retryVars, tokens, rateVars, saveVars, moreVars>>

NextLevelKill ==
  \/ LevelNext
  \/ LevelKill

SpecLevelKill == InitLevel /\ [][NextLevelKill]_vars

\* C29: every uri of the index file has a record in the NDJSON file;
\* processLevel starts with the uris of the index file in its set; and no
\* uri is in the NDJSON file twice, whatever was killed and started again.
C29_IndexMatchesOutput ==
  /\ [](indexFile \subseteq Range(ndjson))
  /\ [][(lvPc = "down" /\ lvPc' # "down") => uriSet' = indexFile]_vars
  /\ [](\A i, j \in 1..Len(ndjson) : ndjson[i] = ndjson[j] => i = j)

\* ------------------------------------------------------------------------
\* The bulk fetcher against a server that may answer with JSON of another
\* shape (an error object, say)
\* ------------------------------------------------------------------------

\* fetchWithRetry returned a response whose body is JSON without any of
\* the item arrays extractItems knows.
FetchReturnsUnknown(w) ==
  /\ pc[w] = "fetch"
  /\ body' = [body EXCEPT ![w] = "unknown"]
  /\ pc' = [pc EXCEPT ![w] = "text"]
  /\ UNCHANGED <<source, diskMeta, files, kills, countries, mainPc, meta,
                 queue, country, level, from, seen, newItems, cont,
                 metaWriteLock>>
  /\ UNCHANGED netVars

NextShapes ==
  \/ Next
  \/ \E w \in Workers : FetchReturnsUnknown(w)

SpecShapes == InitFiltered /\ [][NextShapes]_vars

\* C30: a response whose JSON has no known item array does not complete
\* the scope: the entry's completed flag stays as it was and no checkpoint
\* with the scope completed is queued.
C30_UnknownShapeIsError ==
  [][\A w \in Workers :
       (pc[w] = "text" /\ body[w] = "unknown" /\ pc'[w] # pc[w])
         => entryOf(w)'.completed = entryOf(w).completed]_vars

\* ------------------------------------------------------------------------
\* The detail fetcher and its meta file: flush timer, milestone saves,
\* kills and restarts
\* ------------------------------------------------------------------------

\* The lines of the file a run with kills goes over.
MaxLines == 3

\* The detail fetcher on the part of a country file that is still to do:
\* either the file is new, or the lines before have been done in earlier
\* runs (99 fetched, 99 failed, no request out at the last save) and
\* `uris` are the lines after them, numbered from there.
InitMeta ==
  /\ source = <<>>
  /\ countries = {}
  /\ BulkOff
  /\ NetOff
  /\ LevelOff
  /\ AiOff
  /\ SemOff
  /\ tool = "detail"
  /\ uris \in {l \in UriLists(MaxUris) : Len(l) = MaxLines}
  /\ outFiles \in SUBSET {u \in UriIds : u > 1}
  /\ lineNo = 0
  /\ active = 0
  /\ executing = {}
  /\ raced = {}
  /\ task = NoTasks
  /\ cmeta = [attempted |-> 0, succeeded |-> 0, failed |-> 0,
              skippedExisting |-> 0]
  /\ dpc = "down"
  /\ diskCm \in {NewCm,
                 [NewCm EXCEPT !.attempted = 2 * (MILESTONE - 1),
                               !.succeeded = MILESTONE - 1,
                               !.failed = MILESTONE - 1]}
  /\ dirty = FALSE
  /\ cmSaves = {}
  /\ lastLogged = [s |-> 0, f |-> 0]

\* The saves the flush timer's callbacks are waiting for.
TimerSaves == {save \in cmSaves : save.by = "timer"}

\* The flush timer fires (every 3 s): if (!dirty) return; else the meta is
\* saved, and dirty = false follows when the save is over (CmSaveDone).  A
\* save lasts less than the timer's period, so no two callbacks wait.  A
\* timer fires when the program waits for I/O or in a sleep: between
\* reading a line and submitting its task only while drain sleeps.
FlushTick ==
  /\ tool = "detail"
  /\ "flush" \in timers
  /\ dpc = "drain" => ~DrainOpen(active)
  /\ dirty
  /\ TimerSaves = {}
  /\ cmSaves' = saveCountryMeta("timer", 0, MemCm)
  /\ UNCHANGED <<tool, uris, outFiles, lineNo, active, executing, raced,
                 task, cmeta, dpc, diskCm, dirty, lastLogged>>
  /\ UNCHANGED <<notPool, procVars>>

\* The process is killed, or has ended: the files are left, the requests
\* that are out are lost, a save that has not renamed its temp file yet
\* leaves the meta file as it was.
DetailKill ==
  /\ tool = "detail"
  /\ dpc # "down"
  /\ kills < MaxKills
  /\ kills' = kills + 1
  /\ lineNo' = 0
  /\ active' = 0
  /\ task' = [i \in 1..MaxUris |->
                IF task[i] = "inflight" THEN "lost" ELSE task[i]]
  /\ cmeta' = [attempted |-> 0, succeeded |-> 0, failed |-> 0,
               skippedExisting |-> 0]
  /\ dpc' = "down"
  /\ dirty' = FALSE
  /\ cmSaves' = {}
  /\ lastLogged' = [s |-> 0, f |-> 0]
  /\ timers' = {}
  /\ UNCHANGED <<tool, uris, outFiles, executing, raced, diskCm, metaRef>>
  /\ UNCHANGED <<source, diskMeta, files, countries, mainPc, meta, queue,
                 country, level, from, seen, body, newItems, pc, cont,
                 metaWriteLock>>
  /\ UNCHANGED <<retryVars, tokens, rateVars, levelVars, saveVars,
                 laterVars>>

NextMeta ==
  \/ PoolStart
  \/ NextDetail
  \/ FlushTick
  \/ DetailKill

SpecMeta == InitMeta /\ [][NextMeta]_vars

\* The lines of the file that have been dealt with: the output file of the
\* line's uri is there, or the line has been counted as failed or skipped.
Settled(i) == uris[i] \in outFiles \/ task[i] \in {"failed", "skipped"}

\* C31: when the detail fetcher is through a country file, after whatever
\* kills and restarts, every line at or below the persisted lastLine has
\* its output file or was counted as failed or skipped: a request that was
\* out when the meta was saved has been made again.
C31_NoWorkLost ==
  dpc = "mainEnd" => \A i \in 1..diskCm.lastLine : Settled(i)

\* Meta a is not older than meta b.
NotOlder(a, b) ==
  /\ a.lastLine >= b.lastLine
  /\ a.attempted >= b.attempted
  /\ a.succeeded >= b.succeeded
  /\ a.failed >= b.failed
  /\ a.skippedExisting >= b.skippedExisting

\* C32: the saves of the flush timer, of the milestones and at the end,
\* however they overlap, never take the meta file backwards: what a save
\* leaves in the file is never older than what was in it.
C32_MetaFileNeverGoesBack == [][NotOlder(diskCm', diskCm)]_vars

\* C38: in the detail fetcher, whenever the dirty flag is false (and no
\* save is being awaited) the meta file equals the meta in memory: a
\* change made while a save is awaited is still flagged when the save is
\* over and the flag is cleared.
C38_CleanMeansSaved ==
  (tool = "detail" /\ dpc \notin {"down", "mainEnd"} /\ ~dirty /\ cmSaves = {})
    => diskCm = MemCm

\* ------------------------------------------------------------------------
\* The level fetcher: where a new run resumes
\* ------------------------------------------------------------------------

\* The offsets processLevel can request from the source.
LevelOffsets == {k * SIZE : k \in 0..((Len(source) \div SIZE) + 1)}

\* The page at offset f has courses and all of them are in the NDJSON file.
PageSaved(f) ==
  /\ LevelPageAt(source, f) # <<>>
  /\ Range(LevelPageAt(source, f)) \subseteq Range(ndjson)

\* The first offset whose page is not saved.
FirstUnsaved ==
  CHOOSE f \in LevelOffsets :
    /\ ~PageSaved(f)
    /\ \A g \in LevelOffsets : g < f => PageSaved(g)

\* C33: a run of the level fetcher never starts beyond the first offset
\* whose page has not been saved: after a failed fetch, an unexpected
\* response or an empty page at offset f, f = 0 included, the next run
\* requests f again and not f + SIZE.
C33_ResumeSkipsNoPage ==
  [][(lvPc = "down" /\ lvPc' = "request") => lvFrom' <= FirstUnsaved]_vars

\* ------------------------------------------------------------------------
\* The level fetcher against a source that never ends
\* ------------------------------------------------------------------------

\* The pages a run of this model follows a source that never ends.
MaxLevelPages == 5

\* The server answers a request beyond the end of its list with courses
\* again (it wraps around) and without paginationInfos.
LevelFetchReturnsAgain ==
  /\ lvPc = "request"
  /\ source # <<>>
  /\ lvFrom >= Len(source)
  /\ lvFrom < SIZE * MaxLevelPages
  /\ courses' = LevelPageAt(source, 0)
  /\ lastPage' = FALSE
  /\ lvPc' = "append"
  /\ UNCHANGED <<ndjson, indexFile, progressFile, finalJson, lvFrom, uriSet,
                 totalSaved>>
  /\ UNCHANGED <<bulkVars, retryVars, tokens, rateVars, saveVars, moreVars>>

\* One run from an empty directory; beyond the end of its list the server
\* returns an empty page or wraps around.
NextRunaway ==
  \/ LevelNext
  \/ LevelFetchReturnsAgain

SpecRunaway == InitLevel /\ [][NextRunaway]_vars

\* C34: the loop of processLevel is over after a bounded number of pages
\* whatever the source does: against a source that goes on returning
\* courses without paginationInfos no request is made beyond the page
\* ceiling.
C34_LevelLoopBounded ==
  lvPc = "request" => lvFrom < SIZE * MAX_PAGES_PER_LEVEL

\* The calls of saveMeta whose write is over and has failed.
FailedBefore(i) == {j \in 1..(i - 1) : chain[j].st # "queued" /\
                      chain[j].st # "writing" /\ chain[j].st # "renaming" /\
                      ~chain[j].ok}

\* C35: no call of saveMeta leaves the chain rejected, whatever failed in
\* its write; and a later call whose turn has come runs its own write.
C35_ChainNeverRejected ==
  /\ \A i \in 1..Len(chain) : chain[i].st # "rejected"
  /\ \A i \in 2..Len(chain) :
       (chain[i].st = "queued" /\
        chain[i - 1].st \notin {"queued", "writing", "renaming"})
         => ThenReady(chain, i)

\* A write has failed and the write of a later call has succeeded.
C35_Witness ==
  \E i \in 1..Len(chain) :
    /\ chain[i].st = "settled" /\ chain[i].ok
    /\ FailedBefore(i) # {}

\* C36: the token bucket is one counter for all workers and stays within
\* 0..MAX_RPS; a caller leaves rateLimit with exactly one token taken, and
\* a request is sent only by a caller that has left rateLimit; so at most
\* MAX_RPS callers pass rateLimit between two refills.
C36_BucketBounds ==
  /\ [](tokens \in 0..MAX_RPS /\ passed <= MAX_RPS)
  /\ [][\A c \in Workers :
          (lpc[c] = "idle" /\ lpc'[c] # "idle")
            => (tokens > 0 /\ tokens' = tokens - 1 /\ passed' = passed + 1)]_vars
  /\ [][sent'[0] > (IF clock' = clock THEN sent[0] ELSE 0)
          => \E c \in Workers : lpc[c] \in {"jitter", "late"} /\
                                lpc'[c] = "idle"]_vars

\* The bucket is empty: MAX_RPS callers have passed since the last refill,
\* one more is waiting in rateLimit, and a request has been sent.
C36_Witness ==
  /\ tokens = 0 /\ passed = MAX_RPS
  /\ \E c \in Workers : lpc[c] = "idle"
  /\ SentInWindow > 0

\* The offsets of the pages before offset f.
PagesBefore(f) == {g \in 0..(f - 1) : g % PAGE_SIZE = 0}

\* C37: the persisted checkpoint of the bulk fetcher is never ahead of the
\* output, whenever the process is killed: the records of every page
\* before the persisted offset of a scope are in the scope's output file.
C37_CheckpointNotAhead ==
  \A s \in Scopes :
    \A g \in PagesBefore(diskMeta[s].from) :
      Range(PageAt(source, g)) \subseteq Range(files[s])

\* ------------------------------------------------------------------------
\* The AI cleaning stage (src/400AIClean.js) on one CSV file, killed and
\* started again
\* ------------------------------------------------------------------------

\* The rows of the input file.
MaxRows == 3

\* new ConcurrencyPool(CONCURRENT_LIMIT)
CONCURRENT_LIMIT == 2

\* if (completed % 10 === 0): the periodic saves
SAVE_EVERY == 2

InitClean ==
  /\ source = <<>>
  /\ countries = {}
  /\ BulkOff
  /\ NetOff
  /\ LevelOff
  /\ PoolIdle
  /\ SemOff
  /\ \E n \in 1..MaxRows : rows = 1..n
  /\ tempCsv = <<>>
  /\ checkpoint = NoCheckpoint
  /\ processedSet = {}
  /\ completed = 0
  /\ running = 0
  /\ aiTask = [i \in 1..MaxRows |-> "none"]
  /\ outCsv = <<>>
  /\ aiPc = "down"

\* node 400AIClean.js file.csv: main resumes the file of an in-progress
\* checkpoint, and skips a file whose checkpoint is done;
\* processFileWithConcurrency reads the rows, loads or creates the
\* checkpoint, and queues a pool task for every row not in processedSet.
CleanStart ==
  /\ aiPc = "down"
  /\ IF checkpoint.exists /\ checkpoint.status = "done"
     THEN /\ aiPc' = "done"
          /\ UNCHANGED <<checkpoint, processedSet, completed, aiTask>>
     ELSE /\ checkpoint' = IF checkpoint.exists THEN checkpoint
                           ELSE [exists |-> TRUE, status |-> "in-progress",
                                 processedRows |-> {}]
          /\ processedSet' = checkpoint'.processedRows
          /\ completed' = Cardinality(processedSet')
          /\ aiTask' = [i \in 1..MaxRows |->
                          IF i \in rows \ processedSet' THEN "queued"
                                                         ELSE "none"]
          /\ aiPc' = "running"
  /\ UNCHANGED <<rows, tempCsv, running, outCsv>>
  /\ UNCHANGED <<bulkVars, retryVars, tokens, rateVars, levelVars, saveVars,
                 poolVars, procVars, semVars>>

\* ConcurrencyPool.run: while (this.running >= this.limit) wait; then
\* running++ and the task calls cleanSingleRow.
CleanRun(i) ==
  /\ aiPc = "running"
  /\ aiTask[i] = "queued"
  /\ running < CONCURRENT_LIMIT
  /\ running' = running + 1
  /\ aiTask' = [aiTask EXCEPT ![i] = "cleaning"]
  /\ UNCHANGED <<rows, tempCsv, checkpoint, processedSet, completed, outCsv,
                 aiPc>>
  /\ UNCHANGED <<bulkVars, retryVars, tokens, rateVars, levelVars, saveVars,
                 poolVars, procVars, semVars>>

\* The temp CSV after the task of row i: csvWriter.writeRecords the
\* cleaned row on success; on failure the row goes to errorArray only.
CleanedRows(csv, i, ok) == IF ok THEN Append(csv, i) ELSE csv

\* cleanSingleRow returned, with success or, after all retries, without:
\* the task writes the row, adds it to processedSet, counts it, and every
\* SAVE_EVERY-th row saves the checkpoint; running--.
CleanEnds(i, ok) ==
  /\ aiPc = "running"
  /\ aiTask[i] = "cleaning"
  /\ tempCsv' = CleanedRows(tempCsv, i, ok)
  /\ IF ok
     THEN /\ processedSet' = processedSet \cup {i}
          /\ completed' = completed + 1
          /\ checkpoint' = IF completed' % SAVE_EVERY = 0
                           THEN [checkpoint EXCEPT
                                   !.processedRows = processedSet']
                           ELSE checkpoint
          /\ aiTask' = [aiTask EXCEPT ![i] = "written"]
     ELSE /\ aiTask' = [aiTask EXCEPT ![i] = "failed"]
          /\ UNCHANGED <<processedSet, completed, checkpoint>>
  /\ running' = running - 1
  /\ UNCHANGED <<rows, outCsv, aiPc>>
  /\ UNCHANGED <<bulkVars, retryVars, tokens, rateVars, levelVars, saveVars,
                 poolVars, procVars, semVars>>

\* await Promise.all(promises) is over: the temp CSV is moved over the
\* input file and the checkpoint is marked done.
CleanFinish ==
  /\ aiPc = "running"
  /\ \A i \in 1..MaxRows : aiTask[i] \in {"none", "written", "failed"}
  /\ outCsv' = tempCsv
  /\ tempCsv' = <<>>
  /\ checkpoint' = [exists |-> TRUE, status |-> "done",
                    processedRows |-> processedSet]
  /\ aiPc' = "done"
  /\ UNCHANGED <<rows, processedSet, completed, running, aiTask>>
  /\ UNCHANGED <<bulkVars, retryVars, tokens, rateVars, levelVars, saveVars,
                 poolVars, procVars, semVars>>

\* The process is killed while rows are being cleaned, or has ended: the
\* files are left.
CleanKill ==
  /\ aiPc \in {"running", "done"}
  /\ kills < MaxKills
  /\ kills' = kills + 1
  /\ processedSet' = {}
  /\ completed' = 0
  /\ running' = 0
  /\ aiTask' = [i \in 1..MaxRows |-> "none"]
  /\ aiPc' = "down"
  /\ UNCHANGED <<rows, tempCsv, checkpoint, outCsv>>
  /\ UNCHANGED <<source, diskMeta, files, countries, mainPc, meta, queue,
                 country, level, from, seen, body, newItems, pc, cont,
                 metaWriteLock>>
  /\ UNCHANGED <<retryVars, tokens, rateVars, levelVars, saveVars, poolVars,
                 procVars, semVars>>

NextClean ==
  \/ CleanStart
  \/ \E i \in 1..MaxRows : CleanRun(i)
  \/ \E i \in 1..MaxRows, ok \in BOOLEAN : CleanEnds(i, ok)
  \/ CleanFinish
  \/ CleanKill

SpecClean == InitClean /\ [][NextClean]_vars

\* How often row i is in the file.
TimesIn(csv, i) == Cardinality({k \in 1..Len(csv) : csv[k] = i})

\* C39: when processFileWithConcurrency is through, killed and resumed in
\* between or not, the file that replaces the input has exactly one row
\* for every row of the input, the rows whose cleaning failed included.
C39_OneRowPerInputRow ==
  aiPc = "done" => \A i \in rows : TimesIn(outCsv, i) = 1

\* ------------------------------------------------------------------------
\* The Semaphore of src/303polished_learningOpportunities.js and the tasks
\* that call it
\* ------------------------------------------------------------------------

\* The tasks that use the semaphore.
MaxTasks == 4

\* new Semaphore(CONCURRENCY)
SEM_MAX == 2

SemTasks == 1..MaxTasks

InitSem ==
  /\ source = <<>>
  /\ countries = {}
  /\ BulkOff
  /\ NetOff
  /\ LevelOff
  /\ PoolIdle
  /\ AiOff
  /\ current = 0
  /\ waiters = <<>>
  /\ semPc = [t \in SemTasks |-> "idle"]

\* acquire() up to its await: with a permit free, current += 1 and the
\* caller holds one; else its resolve is pushed on waiters.
acquire(t) ==
  /\ semPc[t] = "idle"
  /\ IF current < SEM_MAX
     THEN /\ current' = current + 1
          /\ semPc' = [semPc EXCEPT ![t] = "holding"]
          /\ UNCHANGED waiters
     ELSE /\ waiters' = Append(waiters, t)
          /\ semPc' = [semPc EXCEPT ![t] = "waiting"]
          /\ UNCHANGED current
  /\ UNCHANGED <<bulkVars, retryVars, tokens, rateVars, levelVars, saveVars,
                 poolVars, procVars, aiVars>>

\* release() by a holder: current -= 1; the first waiter's resolve is
\* called, which queues that waiter's continuation.
release(t) ==
  /\ semPc[t] = "holding"
  /\ current' = current - 1
  /\ IF waiters = <<>>
     THEN /\ semPc' = [semPc EXCEPT ![t] = "idle"]
          /\ UNCHANGED waiters
     ELSE /\ semPc' = [semPc EXCEPT ![t] = "idle",
                                    ![Head(waiters)] = "resolved"]
          /\ waiters' = Tail(waiters)
  /\ UNCHANGED <<bulkVars, retryVars, tokens, rateVars, levelVars, saveVars,
                 poolVars, procVars, aiVars>>

\* The continuation of a waiter whose promise is resolved runs: current +=
\* 1, and acquire() returns.
AcquireResumes(t) ==
  /\ semPc[t] = "resolved"
  /\ current' = current + 1
  /\ semPc' = [semPc EXCEPT ![t] = "holding"]
  /\ UNCHANGED waiters
  /\ UNCHANGED <<bulkVars, retryVars, tokens, rateVars, levelVars, saveVars,
                 poolVars, procVars, aiVars>>

\* Tasks that call acquire() and release() in any order, a release by a
\* holder only.
NextSem ==
  \/ \E t \in SemTasks : acquire(t)
  \/ \E t \in SemTasks : release(t)
  \/ \E t \in SemTasks : AcquireResumes(t)

SpecSem == InitSem /\ [][NextSem]_vars

\* The tasks for which acquire() has returned and which have not released.
Holders == {t \in SemTasks : semPc[t] = "holding"}

\* C40: however acquire() and release() are called, never more than max
\* tasks hold a permit; and a release with tasks waiting wakes the one
\* that has waited longest.
C40_SemaphoreBound ==
  /\ [](Cardinality(Holders) <= SEM_MAX)
  /\ [][\A t \in SemTasks :
          (semPc[t] = "holding" /\ semPc'[t] = "idle" /\ waiters # <<>>)
            => semPc'[Head(waiters)] = "resolved"]_vars

====
